---- MODULE Spec2Model ----
(***************************************************************************)
(* Verification model of ansel, the publish engine and the processing     *)
(* helpers:                                                                *)
(*   - SyncDirectory / listObjects / uploadFile / fileMD5  (S3 sync)       *)
(*   - CreateOrUpdateStack / StackExists                   (stack ensure)  *)
(*   - WaitForStack / getStackFailureReason                (stack wait)    *)
(*   - InvalidateDistribution                              (invalidation)  *)
(*   - GetStackOutputs and runPublish, lines 290-322       (publish run)   *)
(*   - SelectHostedZone                                    (zone choice)   *)
(*   - generateOutputPath                                  (output names)  *)
(*   - processExpandVips / ResizeToFit / AddFrame          (expand fit)    *)
(* Strings the code converts (paths, keys, ETags, digests, error messages) *)
(* are sequences of one-character strings (messages: of words), so that    *)
(* Trim, ToSlash, Rel, hex encoding and substring search are computed.     *)
(***************************************************************************)
EXTENDS Integers, Sequences, FiniteSets, TLC

VARIABLES
    \* ---- content sync -------------------------------------------------
    sep,        \* os.PathSeparator of the host ("/" or "\")
    tree,       \* local build directory: name list -> [isDir, content, mtime]
    remote,     \* the bucket: key -> ETag
    pc,         \* position of SyncDirectory: idle, list, walk, loop, done
    existing,   \* listObjects' map under construction / SyncDirectory's index
    pageNo,     \* number of the listing page the paginator fetches next
    files,      \* paths collected by the walk
    idx,        \* loop position in files
    uploaded,   \* local counter of SyncDirectory
    skipped,    \* local counter of SyncDirectory
    err,        \* what SyncDirectory returned (None while running / on success)
    putLog,     \* keys of the PutObject requests issued in this run
    decisions,  \* per finished loop iteration: "skipped" or "uploaded"
    remote0,    \* the bucket as it was when this run started
    run,        \* number of runs started
    listErrPage,\* page on which this run's listing failed (0: it did not)
    prevOk,     \* the previous run returned nil
    prevUploaded,\* the keys the previous run uploaded
    errPath,    \* the path the returned error names (<<>>: none)
    \* ---- CreateOrUpdateStack -------------------------------------------
    stackExists,\* the provider has a stack of that name
    params,     \* the StackParams argument
    epc,        \* position of CreateOrUpdateStack: idle, check, submit, done
    describeOut,\* what DescribeStacks answered to StackExists
    existsRes,  \* what StackExists returned: [exists, err]
    requests,   \* create/update requests submitted by this call
    submitOut,  \* what the provider answered to the submission
    ensureRes,  \* what CreateOrUpdateStack returned: [started, err]
    calls,      \* number of calls started
    \* ---- WaitForStack --------------------------------------------------
    wpc,        \* position of WaitForStack: idle, waiting, returned
    ctxDone,    \* the context is cancelled or past its deadline
    polls,      \* ticks on which DescribeStacks was called
    elapsed,    \* firings of WaitForStack's ticker since it was created
    tickReady,  \* ticker.C holds a tick that was not received yet
    pollLog,    \* per poll of this wait: "err", "empty", or Classify's word
    lastStatus, \* the status the latest poll observed (None: it saw none)
    events,     \* what DescribeStackEvents returned, newest event first
    eventsErr,  \* DescribeStackEvents failed
    waitRes,    \* what WaitForStack returned: [kind, status, reason]
    \* ---- InvalidateDistribution ----------------------------------------
    ipc,        \* position of InvalidateDistribution: idle, waiting, returned
    invRequests,\* the CreateInvalidation requests submitted
    ielapsed,   \* firings of InvalidateDistribution's ticker
    itickReady, \* its ticker.C holds a tick that was not received yet
    invLog,     \* per GetInvalidation call: "err" or the status it answered
    invRes,     \* what InvalidateDistribution returned (None: nothing yet)
    \* ---- runPublish -----------------------------------------------------
    ppc,        \* position of runPublish: idle, ensure, wait, outputs, sync,
                \* invalidate, done (it returned nil), failed
    outputs,    \* the StackOutputs read by GetStackOutputs
    pubErr,     \* the error runPublish returned: [from, err]
    steps,      \* the calls runPublish has made, in order
    \* ---- the provider's stack -------------------------------------------
    stackStatus,\* the status of the stack (None: there is no stack)
    \* ---- a second publish run on the same stack name -------------------
    bpc,        \* its position: idle, check, submit, returned (from
                \* CreateOrUpdateStack), then wait, outputs or failed
    bExists,    \* what its StackExists returned
    bRequests,  \* the create/update requests it submitted
    bSubmitOut, \* what the provider answered to its submission
    bRes,       \* what its CreateOrUpdateStack returned
    bSteps,     \* the calls it has made, in order
    \* ---- functions checked on their own --------------------------------
    fname,      \* the function that is applied (None: none)
    arg,        \* its arguments
    ret         \* <<what it returned>> (<<>>: it was not applied yet)

syncVars == <<sep, tree, remote, pc, existing, pageNo, files, idx, uploaded,
              skipped, err, putLog, decisions, remote0, run, listErrPage, prevOk,
                   prevUploaded, errPath>>

ensureVars == <<stackExists, params, epc, describeOut, existsRes, requests,
                submitOut, ensureRes, calls>>

waitVars == <<wpc, ctxDone, polls, elapsed, tickReady, pollLog, lastStatus,
              events, eventsErr, waitRes>>

invVars == <<ipc, invRequests, ielapsed, itickReady, invLog, invRes>>

pubVars == <<ppc, outputs, pubErr, steps>>

provVars == <<stackStatus>>

runBVars == <<bpc, bExists, bRequests, bSubmitOut, bRes, bSteps>>

fnVars == <<fname, arg, ret>>

vars == <<syncVars, ensureVars, waitVars, invVars, pubVars, provVars, runBVars,
          fnVars>>

None == "none"

(***************************************************************************)
(* Bounds of the model.                                                    *)
(***************************************************************************)
MaxRuns  == 2   \* SyncDirectory runs per behaviour
PageSize == 1   \* keys per ListObjectsV2 page
MaxMtime == 1   \* times a file's modification time is bumped
MaxCalls == 2   \* CreateOrUpdateStack calls per behaviour
MaxPolls == 3   \* ticker firings, and polls, of one poll loop
MaxEvents == 2  \* events in one DescribeStackEvents answer
MaxOutputs == 2 \* outputs of the stack GetStackOutputs is applied to

(***************************************************************************)
(* Strings as character sequences.                                         *)
(***************************************************************************)
Quote == "\""

\* strings.Trim(s, cutset): drop every leading and trailing char in cutset
RECURSIVE TrimLeft(_, _)
TrimLeft(s, cutset) ==
    IF s # <<>> /\ Head(s) \in cutset THEN TrimLeft(Tail(s), cutset) ELSE s

RECURSIVE TrimRight(_, _)
TrimRight(s, cutset) ==
    IF s # <<>> /\ s[Len(s)] \in cutset
    THEN TrimRight(SubSeq(s, 1, Len(s) - 1), cutset)
    ELSE s

TrimNothing(s, cutset) == s

Trim(s, cutset) == TrimRight(TrimLeft(s, cutset), cutset)

\* hex.EncodeToString: two lowercase hex digits per byte
HexDigits == <<"0", "1", "2", "3", "4", "5", "6", "7",
               "8", "9", "a", "b", "c", "d", "e", "f">>

RECURSIVE HexEncode(_)
HexEncode(bytes) ==
    IF bytes = <<>> THEN <<>>
    ELSE <<HexDigits[(Head(bytes) \div 16) + 1], HexDigits[(Head(bytes) % 16) + 1]>>
         \o HexEncode(Tail(bytes))

\* File contents and their digests.  md5 is abstracted to a table giving a
\* short digest per content; distinct contents have distinct digests.
Contents == {"c1", "c2"}

Md5Sum(content) == IF content = "c1" THEN <<171>> ELSE <<63>>

(***************************************************************************)
(* The local build directory.                                              *)
(***************************************************************************)
BuildDir == <<"w">>          \* the buildDir argument (a clean path)

Separators == {"/", "\\"}

\* the entries the walk can meet, in the lexical order WalkDir visits them
WalkOrder == << <<>>, <<"a">>, <<"d">>, <<"d", "b">> >>

RECURSIVE JoinPath(_, _)
\* filepath.Join of the names, with the host separator s
JoinPath(names, s) ==
    IF names = <<>> THEN <<>>
    ELSE IF Len(names) = 1 THEN <<names[1]>>
    ELSE <<names[1], s>> \o JoinPath(Tail(names), s)

\* the path WalkDir hands to the callback for the entry `names`
PathOf(names) == JoinPath(BuildDir \o names, sep)

FileEntry(c) == [isDir |-> FALSE, content |-> c, mtime |-> 0]
DirEntry   == [isDir |-> TRUE, content |-> "", mtime |-> 0]

\* the trees of the model: file a (absent / c1 / c2), directory d (absent /
\* empty / holding file b with c1 / c2); the root always exists
TreeOf(a, d) ==
    LET dom == {<<>>}
               \cup (IF a \in Contents THEN {<<"a">>} ELSE {})
               \cup (IF d # "absent" THEN {<<"d">>} ELSE {})
               \cup (IF d \in Contents THEN {<<"d", "b">>} ELSE {})
    IN [n \in dom |->
           IF n = <<"a">> THEN FileEntry(a)
           ELSE IF n = <<"d", "b">> THEN FileEntry(d)
           ELSE DirEntry]

Trees == {TreeOf(a, d) : a \in Contents \cup {"absent"},
                         d \in Contents \cup {"absent", "empty"}}

LocalFiles == {n \in DOMAIN tree : ~tree[n].isDir}

\* the callback of filepath.WalkDir: directories are skipped, every other
\* entry's path is appended
RECURSIVE WalkFrom(_)
WalkFrom(i) ==
    IF i > Len(WalkOrder) THEN <<>>
    ELSE LET n == WalkOrder[i] IN
         (IF n \in DOMAIN tree /\ ~tree[n].isDir THEN <<PathOf(n)>> ELSE <<>>)
         \o WalkFrom(i + 1)

WalkFiles == WalkFrom(1)

\* the tree entry a path names
EntryAt(path) == CHOOSE n \in DOMAIN tree : PathOf(n) = path

\* filepath.Rel(buildDir, path) for a path below buildDir
Rel(base, path) == SubSeq(path, Len(base) + 2, Len(path))

\* filepath.ToSlash: the host separator becomes "/"
ToSlash(p) == [i \in DOMAIN p |-> IF p[i] = sep THEN "/" ELSE p[i]]

\* the S3 key of a walked path
KeyOf(path) == ToSlash(Rel(BuildDir, path))

\* fileMD5 of a readable file
FileMD5(path) == HexEncode(Md5Sum(tree[EntryAt(path)].content))

(***************************************************************************)
(* The bucket.                                                             *)
(***************************************************************************)
KeyA == <<"a">>
KeyB == <<"d", "/", "b">>
KeyZ == <<"z">>              \* never the key of a local file

\* ListObjectsV2 returns keys in this (binary) order
ListOrder == <<KeyA, KeyB, KeyZ>>

\* the ETag S3 gives an object stored by a single PutObject: the quoted
\* hex MD5 of the body
S3ETag(content) == <<Quote>> \o HexEncode(Md5Sum(content)) \o <<Quote>>

\* the ETags the bucket may hold for a key at the start
InitialETags == {S3ETag(c) : c \in Contents} \cup {HexEncode(Md5Sum("c1"))}

\* no object under the key
Absent == <<>>

RemoteOf(ea, eb, ez) ==
    LET dom == (IF ea # Absent THEN {KeyA} ELSE {})
               \cup (IF eb # Absent THEN {KeyB} ELSE {})
               \cup (IF ez # Absent THEN {KeyZ} ELSE {})
    IN [k \in dom |-> IF k = KeyA THEN ea ELSE IF k = KeyB THEN eb ELSE ez]

Remotes == {RemoteOf(ea, eb, ez) : ea \in InitialETags \cup {Absent},
                                   eb \in InitialETags \cup {Absent},
                                   ez \in {S3ETag("c1"), Absent}}

RECURSIVE ListingFrom(_, _)
ListingFrom(store, i) ==
    IF i > Len(ListOrder) THEN <<>>
    ELSE (IF ListOrder[i] \in DOMAIN store THEN <<ListOrder[i]>> ELSE <<>>)
         \o ListingFrom(store, i + 1)

\* all keys of the bucket, in listing order
Listing == ListingFrom(remote, 1)

\* the keys of page n
PageKeys(n) ==
    LET first == (n - 1) * PageSize + 1
        last  == IF n * PageSize < Len(Listing) THEN n * PageSize ELSE Len(Listing)
    IN {Listing[i] : i \in first..last}

\* the paginator has a continuation token after page n
HasMorePages(n) == n * PageSize < Len(Listing)

\* listObjects' loop body: objects[*obj.Key] = *obj.ETag for the page
DropEarlierPages(objects, n) == [k \in PageKeys(n) |-> remote[k]]

AddPage(objects, n) ==
    [k \in DOMAIN objects \cup PageKeys(n) |->
        IF k \in PageKeys(n) THEN remote[k] ELSE objects[k]]

\* listObjects when NextPage fails: the map built so far, and no error
FailOnListError(objects) == [objects |-> objects, err |-> "list"]

OnListError(objects) == [objects |-> objects, err |-> None]

\* PutObject(key, body): stores the body under the key
PutAndPrune(store, key, content) == [k \in {key} |-> S3ETag(content)]

PutObject(store, key, content) ==
    [k \in DOMAIN store \cup {key} |->
        IF k = key THEN S3ETag(content) ELSE store[k]]

(***************************************************************************)
(* SyncDirectory.                                                          *)
(***************************************************************************)
\* lines 113-120: the file is unchanged
SkipIfOlder(index, path) ==
    /\ KeyOf(path) \in DOMAIN index
    /\ tree[EntryAt(path)].mtime = 0

SkipIfListed(index, path) == KeyOf(path) \in DOMAIN index

Unchanged(index, path) ==
    /\ KeyOf(path) \in DOMAIN index
    /\ Trim(index[KeyOf(path)], {Quote}) = FileMD5(path)

\* lines 90-92
AcceptNoFiles(fs) == FALSE

NoFiles(fs) == Len(fs) = 0

\* skipped++ / uploaded++
ForgetSkip(n) == n

CountSkip(n) == n + 1

CountUpload(n) == n + 1

\* every remote call is handed the context: once it is done the call fails
CallOutcomes == IF ctxDone THEN {FALSE} ELSE BOOLEAN

SyncInit ==
    /\ sep \in Separators
    /\ tree \in Trees
    /\ remote \in Remotes
    /\ pc = "idle"
    /\ existing = <<>>
    /\ pageNo = 0
    /\ files = <<>>
    /\ idx = 0
    /\ uploaded = 0
    /\ skipped = 0
    /\ err = None
    /\ putLog = <<>>
    /\ decisions = <<>>
    /\ remote0 = remote
    /\ run = 0
    /\ listErrPage = 0
    /\ prevOk = FALSE
    /\ prevUploaded = {}
    /\ errPath = <<>>

\* a call of SyncDirectory begins (lines 67-69): listObjects makes its map
\* and its paginator
SyncStart ==
    /\ pc \in {"idle", "done"}
    /\ run < MaxRuns
    /\ pc' = "list"
    /\ run' = run + 1
    /\ prevOk' = (pc = "done" /\ err = None)
    /\ prevUploaded' = {KeyOf(files[i]) : i \in {j \in 1..Len(decisions) :
                                                   decisions[j] = "uploaded"}}
    /\ existing' = <<>>
    /\ pageNo' = 1
    /\ files' = <<>>
    /\ idx' = 0
    /\ uploaded' = 0
    /\ skipped' = 0
    /\ err' = None
    /\ errPath' = <<>>
    /\ putLog' = <<>>
    /\ decisions' = <<>>
    /\ remote0' = remote
    /\ listErrPage' = 0
    /\ UNCHANGED <<sep, tree, remote>>
    /\ UNCHANGED <<ensureVars, waitVars, invVars, pubVars,
                   fnVars, runBVars, provVars>>

\* one turn of listObjects' loop (lines 141-152); the last page, or a failed
\* one, returns to SyncDirectory (lines 69-72)
ListPage ==
    /\ pc = "list"
    /\ \E ok \in CallOutcomes :
         IF ok
         THEN /\ existing' = AddPage(existing, pageNo)
              /\ listErrPage' = listErrPage
              /\ err' = err
              /\ IF HasMorePages(pageNo)
                 THEN pageNo' = pageNo + 1 /\ pc' = "list"
                 ELSE pageNo' = pageNo /\ pc' = "walk"
         ELSE LET r == OnListError(existing) IN
              /\ existing' = r.objects
              /\ listErrPage' = pageNo
              /\ pageNo' = pageNo
              /\ err' = r.err
              /\ pc' = IF r.err = None THEN "walk" ELSE "done"
    /\ UNCHANGED <<sep, tree, remote, files, idx, uploaded, skipped, putLog,
                   decisions, remote0, run, prevOk,
                   prevUploaded, errPath>>
    /\ UNCHANGED <<ensureVars, waitVars, invVars, pubVars,
                   fnVars, runBVars, provVars>>

\* the walk and the check of its result (lines 75-97)
Walk ==
    /\ pc = "walk"
    /\ \E walkOk \in BOOLEAN :
         IF ~walkOk
         THEN /\ err' = "walk" /\ pc' = "done" /\ files' = files /\ idx' = idx
         ELSE /\ files' = WalkFiles
              /\ IF NoFiles(WalkFiles)
                 THEN err' = "nofiles" /\ pc' = "done" /\ idx' = idx
                 ELSE /\ err' = err /\ idx' = 1
                      /\ pc' = IF Len(WalkFiles) = 0 THEN "done" ELSE "loop"
    /\ UNCHANGED <<sep, tree, remote, existing, pageNo, uploaded, skipped,
                   putLog, decisions, remote0, run, listErrPage, prevOk,
                   prevUploaded, errPath>>
    /\ UNCHANGED <<ensureVars, waitVars, invVars, pubVars,
                   fnVars, runBVars, provVars>>

\* the path in "failed to compute MD5 for %s" (line 110), shortened to the key
Md5ErrorKey(path) == KeyOf(path)

\* the path in "failed to compute MD5 for %s" (line 110)
Md5ErrorPath(path) == path

\* one iteration of the loop over files (lines 99-128); after the last one
\* SyncDirectory returns nil (lines 130-131)
ProcessFile ==
    /\ pc = "loop"
    /\ idx <= Len(files)
    /\ LET path == files[idx]
           key  == KeyOf(path)
           last == idx = Len(files)
       IN \E outcome \in {"ok", "md5Err", "openErr", "putErr"} :
            \/ /\ outcome = "md5Err"                       \* lines 108-111
               /\ err' = "md5" /\ pc' = "done"
               /\ errPath' = Md5ErrorPath(path)
               /\ UNCHANGED <<remote, idx, uploaded, skipped, putLog, decisions>>
            \/ /\ outcome = "ok"                           \* lines 113-120
               /\ Unchanged(existing, path)
               /\ skipped' = CountSkip(skipped)
               /\ decisions' = Append(decisions, "skipped")
               /\ idx' = idx + 1
               /\ pc' = IF last THEN "done" ELSE "loop"
               /\ UNCHANGED <<remote, uploaded, err, putLog, errPath>>
            \/ /\ outcome = "openErr"                      \* lines 158-161
               /\ ~Unchanged(existing, path)
               /\ err' = "upload" /\ pc' = "done"
               /\ errPath' = path
               /\ UNCHANGED <<remote, idx, uploaded, skipped, putLog, decisions>>
            \/ /\ outcome = "putErr"                       \* lines 166-172
               /\ ~Unchanged(existing, path)
               /\ putLog' = Append(putLog, key)
               /\ err' = "upload" /\ pc' = "done"
               /\ errPath' = path
               /\ UNCHANGED <<remote, idx, uploaded, skipped, decisions>>
            \/ /\ outcome = "ok"                           \* lines 123-127
               /\ TRUE \in CallOutcomes
               /\ ~Unchanged(existing, path)
               /\ putLog' = Append(putLog, key)
               /\ remote' = PutObject(remote, key, tree[EntryAt(path)].content)
               /\ uploaded' = CountUpload(uploaded)
               /\ decisions' = Append(decisions, "uploaded")
               /\ idx' = idx + 1
               /\ pc' = IF last THEN "done" ELSE "loop"
               /\ UNCHANGED <<skipped, err, errPath>>
    /\ UNCHANGED <<sep, tree, existing, pageNo, files, remote0, run,
                   listErrPage, prevOk,
                   prevUploaded>>
    /\ UNCHANGED <<ensureVars, waitVars, invVars, pubVars,
                   fnVars, runBVars, provVars>>

\* between two runs a file is rewritten with the same bytes: only its
\* modification time changes
Touch ==
    /\ pc = "done"
    /\ run < MaxRuns
    /\ \E n \in LocalFiles :
         /\ tree[n].mtime < MaxMtime
         /\ tree' = [tree EXCEPT ![n].mtime = @ + 1]
    /\ UNCHANGED <<sep, remote, pc, existing, pageNo, files, idx, uploaded,
                   skipped, err, putLog, decisions, remote0, run, listErrPage,
                   prevOk,
                   prevUploaded, errPath>>
    /\ UNCHANGED <<ensureVars, waitVars, invVars, pubVars,
                   fnVars, runBVars, provVars>>


(***************************************************************************)
(* CreateOrUpdateStack and StackExists.  Error messages are sequences of   *)
(* words.                                                                  *)
(***************************************************************************)
\* containsImpl: substr occurs in s at some offset
ContainsImpl(s, substr) ==
    \E i \in 0..(Len(s) - Len(substr)) :
        SubSeq(s, i + 1, i + Len(substr)) = substr

\* contains
ContainsExact(s, substr) == s = substr

Contains(s, substr) ==
    /\ Len(s) >= Len(substr)
    /\ (s = substr \/ (Len(s) > 0 /\ ContainsImpl(s, substr)))

DoesNotExist == <<"does", "not", "exist">>
NoUpdates    == <<"No", "updates", "are", "to", "be", "performed">>

MsgNotExist   == <<"Stack", "with", "id", "x">> \o DoesNotExist
MsgThrottled  == <<"Rate", "exceeded">>
MsgNoUpdates  == <<"ValidationError">> \o NoUpdates
MsgInProgress == <<"Stack", "is", "in", "UPDATE_IN_PROGRESS", "state">>
MsgExists     == <<"Stack", "already", "exists">>
MsgCanceled   == <<"context", "deadline", "exceeded">>

\* an API answer: success, or an error with its dynamic type and message
Ok == [ok |-> TRUE, typed |-> FALSE, msg |-> <<>>]
Error(typed, msg) == [ok |-> FALSE, typed |-> typed, msg |-> msg]

\* what DescribeStacks may answer
DescribeAnswers(exists) ==
    IF exists
    THEN {Ok, Error(FALSE, MsgThrottled), Error(FALSE, <<>>)}
    ELSE {Error(TRUE, MsgNotExist), Error(FALSE, MsgNotExist),
          Error(FALSE, DoesNotExist), Error(TRUE, <<>>),
          Error(FALSE, MsgThrottled), Error(FALSE, <<>>)}

\* the statuses in which the provider takes an update of a stack
Updatable == {"CREATE_COMPLETE", "UPDATE_COMPLETE", "UPDATE_ROLLBACK_COMPLETE"}

\* the statuses a stack that exists may be in when a run begins: at rest
\* after a success or a rollback, or with the operation of another run in
\* flight
ExistingStatuses == Updatable \cup {"ROLLBACK_COMPLETE", "UPDATE_IN_PROGRESS"}

\* what UpdateStack / CreateStack may answer: an update is accepted, or
\* found to change nothing, only when the stack is at rest; a create only
\* when there is no stack
SubmitAnswers(op) ==
    IF op = "update"
    THEN IF stackStatus \in Updatable
         THEN {Ok, Error(FALSE, MsgNoUpdates), Error(FALSE, NoUpdates),
               Error(FALSE, MsgThrottled)}
         ELSE {Error(FALSE, MsgInProgress), Error(FALSE, MsgThrottled)}
    ELSE IF stackStatus = None
         THEN {Ok, Error(FALSE, MsgNoUpdates), Error(FALSE, MsgThrottled)}
         ELSE {Error(FALSE, MsgExists), Error(FALSE, MsgThrottled)}

\* the status an accepted request puts the stack in
InFlight(op) == IF op = "create" THEN "CREATE_IN_PROGRESS" ELSE "UPDATE_IN_PROGRESS"

\* a call made with a context that is done fails with the context's error
CtxAnswers(answers) ==
    IF ctxDone THEN {Error(FALSE, MsgCanceled)} ELSE answers

\* errors.Is(err, &types.StackNotFoundException{}): the target is a fresh
\* pointer, which no error in the chain equals
ErrorsIsFreshNotFound(e) == FALSE

\* isStackNotExistError
IsStackNotExistError(e) ==
    ~e.ok /\ (ErrorsIsFreshNotFound(e)
              \/ (e.msg # <<>> /\ Contains(e.msg, DoesNotExist)))

\* isNoUpdateError
IsNoUpdateError(e) == ~e.ok /\ Contains(e.msg, NoUpdates)

\* StackExists, given the answer of DescribeStacks
StackExists(answer) ==
    IF ~answer.ok
    THEN IF answer.typed THEN [exists |-> FALSE, err |-> None]
         ELSE IF IsStackNotExistError(answer) THEN [exists |-> FALSE, err |-> None]
         ELSE [exists |-> FALSE, err |-> "describe"]
    ELSE [exists |-> TRUE, err |-> None]

\* GetTemplate(): the embedded template, an opaque string
Template == "template"

\* the stack name is "ansel-" followed by the subdomain
ParamSets == {[StackName |-> IF s = "s1" THEN "ansel-s1" ELSE "ansel-s2",
               Subdomain |-> s, DomainName |-> "example.com",
               HostedZoneID |-> z] : s \in {"s1", "s2"}, z \in {"Z1", "Z2"}}

\* lines 80-84
CfParams(p) ==
    << [key |-> "Subdomain", value |-> p.Subdomain],
       [key |-> "DomainName", value |-> p.DomainName],
       [key |-> "HostedZoneId", value |-> p.HostedZoneID] >>

\* the UpdateStackInput / CreateStackInput
Request(op, p) ==
    [op |-> op, stackName |-> p.StackName, template |-> Template,
     parameters |-> CfParams(p), capabilities |-> {"CAPABILITY_IAM"}]

\* line 91: which request is submitted
AlwaysCreate(exists) == "create"

SubmitOp(exists) == IF exists THEN "update" ELSE "create"

\* lines 99-120: the return value after the submission
NoUpdateIsError(op, answer) ==
    IF answer.ok THEN [started |-> TRUE, err |-> None]
    ELSE [started |-> FALSE, err |-> op]

NoUpdateAnyOp(op, answer) ==
    IF answer.ok THEN [started |-> TRUE, err |-> None]
    ELSE IF IsNoUpdateError(answer) THEN [started |-> FALSE, err |-> None]
         ELSE [started |-> FALSE, err |-> op]

SubmitResult(op, answer) ==
    IF answer.ok THEN [started |-> TRUE, err |-> None]
    ELSE IF op = "update" /\ IsNoUpdateError(answer)
         THEN [started |-> FALSE, err |-> None]
         ELSE [started |-> FALSE, err |-> op]

NoResult == [started |-> FALSE, err |-> None]

EnsureParked ==
    /\ stackExists = FALSE
    /\ stackStatus = None
    /\ params = [StackName |-> "ansel-s1", Subdomain |-> "s1",
                 DomainName |-> "example.com", HostedZoneID |-> "Z1"]
    /\ epc = "idle"
    /\ describeOut = Ok
    /\ existsRes = [exists |-> FALSE, err |-> None]
    /\ requests = <<>>
    /\ submitOut = Ok
    /\ ensureRes = NoResult
    /\ calls = 0

EnsureInit ==
    /\ stackExists \in BOOLEAN
    /\ stackStatus \in (IF stackExists THEN ExistingStatuses ELSE {None})
    /\ params \in ParamSets
    /\ epc = "idle"
    /\ describeOut = Ok
    /\ existsRes = [exists |-> FALSE, err |-> None]
    /\ requests = <<>>
    /\ submitOut = Ok
    /\ ensureRes = NoResult
    /\ calls = 0

\* a call of CreateOrUpdateStack begins (lines 76-84)
EnsureStart ==
    /\ epc \in {"idle", "done"}
    /\ calls < MaxCalls
    /\ calls' = calls + 1
    /\ epc' = "check"
    /\ describeOut' = Ok
    /\ existsRes' = [exists |-> FALSE, err |-> None]
    /\ requests' = <<>>
    /\ submitOut' = Ok
    /\ ensureRes' = NoResult
    /\ UNCHANGED <<stackExists, params>>
    /\ UNCHANGED <<syncVars, waitVars, invVars, pubVars,
                   fnVars, runBVars, provVars>>

\* the existence check (lines 86-89)
EnsureCheck ==
    /\ epc = "check"
    /\ \E answer \in CtxAnswers(DescribeAnswers(stackExists)) :
         /\ describeOut' = answer
         /\ existsRes' = StackExists(answer)
         /\ IF StackExists(answer).err # None
            THEN /\ ensureRes' = [started |-> FALSE, err |-> "describe"]
                 /\ epc' = "done"
            ELSE /\ ensureRes' = ensureRes
                 /\ epc' = "submit"
    /\ UNCHANGED <<stackExists, params, requests, submitOut, calls>>
    /\ UNCHANGED <<syncVars, waitVars, invVars, pubVars,
                   fnVars, runBVars, provVars>>

\* the update or create submission (lines 91-120)
EnsureSubmit ==
    /\ epc = "submit"
    /\ LET op == SubmitOp(existsRes.exists) IN
       \E answer \in CtxAnswers(SubmitAnswers(op)) :
         /\ requests' = Append(requests, Request(op, params))
         /\ submitOut' = answer
         /\ ensureRes' = SubmitResult(op, answer)
         /\ stackExists' = (stackExists \/ (op = "create" /\ answer.ok))
         /\ stackStatus' = IF answer.ok THEN InFlight(op) ELSE stackStatus
         /\ epc' = "done"
    /\ UNCHANGED <<params, describeOut, existsRes, calls>>
    /\ UNCHANGED <<syncVars, waitVars, invVars, pubVars, fnVars, runBVars>>

(***************************************************************************)
(* WaitForStack and getStackFailureReason.                                 *)
(***************************************************************************)
\* types.StackStatus
StackStatuses ==
    {"CREATE_IN_PROGRESS", "CREATE_FAILED", "CREATE_COMPLETE",
     "ROLLBACK_IN_PROGRESS", "ROLLBACK_FAILED", "ROLLBACK_COMPLETE",
     "DELETE_IN_PROGRESS", "DELETE_FAILED", "DELETE_COMPLETE",
     "UPDATE_IN_PROGRESS", "UPDATE_COMPLETE_CLEANUP_IN_PROGRESS",
     "UPDATE_COMPLETE", "UPDATE_FAILED", "UPDATE_ROLLBACK_IN_PROGRESS",
     "UPDATE_ROLLBACK_FAILED", "UPDATE_ROLLBACK_COMPLETE_CLEANUP_IN_PROGRESS",
     "UPDATE_ROLLBACK_COMPLETE", "REVIEW_IN_PROGRESS", "IMPORT_IN_PROGRESS",
     "IMPORT_COMPLETE", "IMPORT_ROLLBACK_IN_PROGRESS", "IMPORT_ROLLBACK_FAILED",
     "IMPORT_ROLLBACK_COMPLETE"}

\* the switch of lines 159-168
RollbackIsSuccess(status) ==
    CASE status \in {"CREATE_COMPLETE", "UPDATE_COMPLETE",
                     "UPDATE_ROLLBACK_COMPLETE"} -> "success"
      [] status \in {"CREATE_FAILED", "ROLLBACK_COMPLETE", "ROLLBACK_FAILED",
                     "UPDATE_ROLLBACK_FAILED", "DELETE_COMPLETE"} -> "failure"
      [] OTHER -> "continue"

Classify(status) ==
    CASE status \in {"CREATE_COMPLETE", "UPDATE_COMPLETE"} -> "success"
      [] status \in {"CREATE_FAILED", "ROLLBACK_COMPLETE", "ROLLBACK_FAILED",
                     "UPDATE_ROLLBACK_COMPLETE", "UPDATE_ROLLBACK_FAILED",
                     "DELETE_COMPLETE", "DELETE_FAILED"} -> "failure"
      [] OTHER -> "continue"

\* a stack event: its ResourceStatus and its ResourceStatusReason (a nil
\* pointer when hasReason is FALSE; a text the provider gives is not empty)
EventKinds ==
    {[status |-> st, hasReason |-> TRUE, reason |-> r] :
        st \in {"CREATE_FAILED", "UPDATE_FAILED", "DELETE_FAILED"},
        r \in {"r1", "r2"}}
    \cup {[status |-> st, hasReason |-> FALSE, reason |-> ""] :
            st \in {"CREATE_FAILED", "UPDATE_FAILED", "DELETE_FAILED"}}

\* the event lists DescribeStackEvents may return, newest event first
EventLists == UNION {[1..n -> EventKinds] : n \in 0..MaxEvents}

\* the loop of lines 184-193
RECURSIVE OldestFailureReason(_)
OldestFailureReason(evs) ==
    IF evs = <<>> THEN "unknown reason"
    ELSE LET e == evs[Len(evs)] IN
         IF e.status \in {"CREATE_FAILED", "UPDATE_FAILED"} /\ e.hasReason
         THEN e.reason
         ELSE OldestFailureReason(SubSeq(evs, 1, Len(evs) - 1))

RECURSIVE FirstFailureReason(_)
FirstFailureReason(evs) ==
    IF evs = <<>> THEN "unknown reason"
    ELSE IF Head(evs).status \in {"CREATE_FAILED", "UPDATE_FAILED"}
            /\ Head(evs).hasReason
         THEN Head(evs).reason
         ELSE FirstFailureReason(Tail(evs))

\* getStackFailureReason, given the answer of DescribeStackEvents
GetStackFailureReason(failed, evs) ==
    IF failed THEN "unable to get failure reason" ELSE FirstFailureReason(evs)

\* what DescribeStacks may answer to a poll: an error, no stack, or a stack
\* in some status; with the context done the call fails
PollAnswers ==
    IF ctxDone THEN {[kind |-> "err", status |-> None]}
    ELSE {[kind |-> "err", status |-> None], [kind |-> "empty", status |-> None]}
         \cup {[kind |-> "stack", status |-> s] : s \in StackStatuses}

Returned(kind, status, reason) ==
    [kind |-> kind, status |-> status, reason |-> reason]

NotReturned == Returned(None, None, "")

\* the ticker case of the select is ready when ticker.C holds a tick
\* (lines 134, 138, 141 and 258, 262, 265)
FetchFirst(ready, fetched) == ready \/ fetched = 0

TickDue(ready, fetched) == ready

\* the ctx.Done() case of the select is ready once the context is done
\* (lines 139 and 263)
DoneNeverReady(done) == FALSE

DoneReady(done) == done

\* line 140: return ctx.Err()
NilOnCancel == Returned("ok", None, "")

CtxErr == Returned("cancelled", None, "")

WaitParked ==
    /\ wpc = "idle"
    /\ ctxDone = FALSE
    /\ polls = 0
    /\ elapsed = 0
    /\ tickReady = FALSE
    /\ pollLog = <<>>
    /\ lastStatus = None
    /\ events = <<>>
    /\ eventsErr = FALSE
    /\ waitRes = NotReturned

\* a call of WaitForStack begins: the ticker is created (lines 128-135)
WaitStart ==
    /\ wpc = "idle"
    /\ wpc' = "waiting"
    /\ elapsed' = 0
    /\ tickReady' = FALSE
    /\ UNCHANGED <<ctxDone, polls, pollLog, lastStatus, events, eventsErr, waitRes>>
    /\ UNCHANGED <<syncVars, ensureVars, invVars, pubVars,
                   fnVars, runBVars, provVars>>

\* the context is cancelled, or its deadline passes, while the call that
\* holds it is running
CtxCancel ==
    /\ ~ctxDone
    /\ IF ppc = "idle" THEN wpc # "returned" /\ ipc # "returned"
       ELSE ppc \notin {"done", "failed"}
    /\ ctxDone' = TRUE
    /\ UNCHANGED <<wpc, polls, elapsed, tickReady, pollLog, lastStatus, events,
                   eventsErr, waitRes>>
    /\ UNCHANGED <<syncVars, ensureVars, invVars, pubVars,
                   fnVars, runBVars, provVars>>

\* 15 seconds pass: the ticker sends on ticker.C, whose buffer holds one
\* tick (a tick that finds it full is dropped)
Tick ==
    /\ wpc = "waiting"
    /\ elapsed < MaxPolls
    /\ elapsed' = elapsed + 1
    /\ tickReady' = TRUE
    /\ UNCHANGED <<wpc, ctxDone, polls, pollLog, lastStatus, events, eventsErr,
                   waitRes>>
    /\ UNCHANGED <<syncVars, ensureVars, invVars, pubVars,
                   fnVars, runBVars, provVars>>

\* select takes the ctx.Done() case (lines 139-140)
WaitCancelled ==
    /\ wpc = "waiting"
    /\ DoneReady(ctxDone)
    /\ wpc' = "returned"
    /\ waitRes' = CtxErr
    /\ UNCHANGED <<ctxDone, polls, elapsed, tickReady, pollLog, lastStatus,
                   events, eventsErr>>
    /\ UNCHANGED <<syncVars, ensureVars, invVars, pubVars,
                   fnVars, runBVars, provVars>>

\* select takes the ticker case (lines 141-170)
Poll ==
    /\ wpc = "waiting"
    /\ TickDue(tickReady, polls)
    /\ polls < MaxPolls
    /\ polls' = polls + 1
    /\ tickReady' = FALSE
    /\ \E answer \in PollAnswers :
         \/ /\ answer.kind = "err"                         \* lines 145-147
            /\ lastStatus' = None
            /\ stackStatus' = stackStatus
            /\ pollLog' = Append(pollLog, "err")
            /\ wpc' = "returned"
            /\ waitRes' = Returned("describeErr", None, "")
            /\ UNCHANGED <<events, eventsErr>>
         \/ /\ answer.kind = "empty"                       \* lines 149-151
            /\ lastStatus' = None
            /\ stackStatus' = stackStatus
            /\ pollLog' = Append(pollLog, "empty")
            /\ wpc' = "returned"
            /\ waitRes' = Returned("notFound", None, "")
            /\ UNCHANGED <<events, eventsErr>>
         \/ /\ answer.kind = "stack"
            /\ Classify(answer.status) = "success"         \* lines 160-161
            /\ lastStatus' = answer.status
            /\ stackStatus' = answer.status
            /\ pollLog' = Append(pollLog, "success")
            /\ wpc' = "returned"
            /\ waitRes' = Returned("ok", answer.status, "")
            /\ UNCHANGED <<events, eventsErr>>
         \/ /\ answer.kind = "stack"
            /\ Classify(answer.status) = "failure"         \* lines 162-167
            /\ lastStatus' = answer.status
            /\ stackStatus' = answer.status
            /\ pollLog' = Append(pollLog, "failure")
            /\ wpc' = "returned"
            /\ \E failed \in BOOLEAN :
               \E evs \in IF failed THEN {<<>>} ELSE EventLists :
                 /\ eventsErr' = failed
                 /\ events' = evs
                 /\ waitRes' = Returned("failed", answer.status,
                                        GetStackFailureReason(failed, evs))
         \/ /\ answer.kind = "stack"
            /\ Classify(answer.status) = "continue"        \* line 169
            /\ lastStatus' = answer.status
            /\ stackStatus' = answer.status
            /\ pollLog' = Append(pollLog, "continue")
            /\ UNCHANGED <<wpc, waitRes, events, eventsErr>>
    /\ UNCHANGED <<ctxDone, elapsed>>
    /\ UNCHANGED <<syncVars, ensureVars, invVars, pubVars, fnVars, runBVars>>

(***************************************************************************)
(* InvalidateDistribution.                                                 *)
(***************************************************************************)
\* the Status of an invalidation as GetInvalidation reports it
InvStatuses == {"InProgress", "Completed", "Pending"}

\* the CreateInvalidationInput of lines 240-249 (the caller reference, a
\* time stamp, is left out)
InvalidationRequest(distributionID) ==
    [distributionId |-> distributionID, paths |-> <<"/*">>, quantity |-> 1]

\* line 276: the status that ends the wait
AnyStatusEnds(status) == TRUE

InvTerminal(status) == status = "Completed"

\* what GetInvalidation may answer; with the context done the call fails
InvAnswers == IF ctxDone THEN {"err"} ELSE {"err"} \cup InvStatuses

InvParked ==
    /\ ipc = "idle"
    /\ invRequests = <<>>
    /\ ielapsed = 0
    /\ itickReady = FALSE
    /\ invLog = <<>>
    /\ invRes = None

\* InvalidateDistribution begins: CreateInvalidation is called, and on its
\* success the ticker is created (lines 235-259)
InvCreate ==
    /\ ipc = "idle"
    /\ invRequests' = Append(invRequests, InvalidationRequest(outputs.DistributionID))
    /\ \E ok \in CallOutcomes :
         IF ok THEN ipc' = "waiting" /\ invRes' = invRes
         ELSE ipc' = "returned" /\ invRes' = "createErr"     \* lines 250-252
    /\ ielapsed' = 0
    /\ itickReady' = FALSE
    /\ invLog' = <<>>
    /\ UNCHANGED <<syncVars, ensureVars, waitVars, pubVars,
                   fnVars, runBVars, provVars>>

\* 5 seconds pass: the ticker sends on ticker.C
InvTick ==
    /\ ipc = "waiting"
    /\ ielapsed < MaxPolls
    /\ ielapsed' = ielapsed + 1
    /\ itickReady' = TRUE
    /\ UNCHANGED <<ipc, invRequests, invLog, invRes>>
    /\ UNCHANGED <<syncVars, ensureVars, waitVars, pubVars,
                   fnVars, runBVars, provVars>>

\* select takes the ctx.Done() case (lines 263-264)
InvCancelled ==
    /\ ipc = "waiting"
    /\ DoneReady(ctxDone)
    /\ ipc' = "returned"
    /\ invRes' = "cancelled"
    /\ UNCHANGED <<invRequests, ielapsed, itickReady, invLog>>
    /\ UNCHANGED <<syncVars, ensureVars, waitVars, pubVars,
                   fnVars, runBVars, provVars>>

\* select takes the ticker case (lines 265-281)
InvPoll ==
    /\ ipc = "waiting"
    /\ TickDue(itickReady, Len(invLog))
    /\ Len(invLog) < MaxPolls
    /\ itickReady' = FALSE
    /\ \E answer \in InvAnswers :
         /\ invLog' = Append(invLog, answer)
         /\ IF answer = "err"                                \* lines 270-272
            THEN ipc' = "returned" /\ invRes' = "fetchErr"
            ELSE IF InvTerminal(answer)                      \* lines 276-279
                 THEN ipc' = "returned" /\ invRes' = "ok"
                 ELSE ipc' = ipc /\ invRes' = invRes         \* line 280
    /\ UNCHANGED <<invRequests, ielapsed>>
    /\ UNCHANGED <<syncVars, ensureVars, waitVars, pubVars,
                   fnVars, runBVars, provVars>>

(***************************************************************************)
(* runPublish.                                                             *)
(***************************************************************************)
\* &StackOutputs{} (cloudformation.go line 212)
NoOutputs == [BucketName |-> "", DistributionID |-> "",
              DistributionDomain |-> "", SiteURL |-> ""]

\* an output of the stack: key and value are pointers (None: nil)
OutputEntry(k, v) == [key |-> k, value |-> v]

FullOutputs ==
    << OutputEntry("BucketName", "bucket"),
       OutputEntry("DistributionId", "D1"),
       OutputEntry("DistributionDomain", "d1.cloudfront.net"),
       OutputEntry("SiteURL", "https://s1.example.com") >>

\* the output lists of the deployed stack as DescribeStacks may give them
OutputLists ==
    {FullOutputs,
     <<OutputEntry("CertificateArn", "arn"), OutputEntry("BucketName", None)>>
        \o FullOutputs \o <<OutputEntry(None, "x")>>,
     SubSeq(FullOutputs, 3, 4)}

\* the loop of lines 214-228
RECURSIVE ReadSwapped(_, _)
ReadSwapped(outs, acc) ==
    IF outs = <<>> THEN acc
    ELSE LET out == Head(outs)
             next ==
               IF out.key = None \/ out.value = None THEN acc
               ELSE CASE out.key = "BucketName"
                           -> [acc EXCEPT !.BucketName = out.value]
                      [] out.key = "DistributionId"
                           -> [acc EXCEPT !.DistributionDomain = out.value]
                      [] out.key = "DistributionDomain"
                           -> [acc EXCEPT !.DistributionID = out.value]
                      [] out.key = "SiteURL"
                           -> [acc EXCEPT !.SiteURL = out.value]
                      [] OTHER -> acc
         IN ReadSwapped(Tail(outs), next)

RECURSIVE ReadOutputs(_, _)
ReadOutputs(outs, acc) ==
    IF outs = <<>> THEN acc
    ELSE LET out == Head(outs)
             next ==
               IF out.key = None \/ out.value = None THEN acc
               ELSE CASE out.key = "BucketName"
                           -> [acc EXCEPT !.BucketName = out.value]
                      [] out.key = "DistributionId"
                           -> [acc EXCEPT !.DistributionID = out.value]
                      [] out.key = "DistributionDomain"
                           -> [acc EXCEPT !.DistributionDomain = out.value]
                      [] out.key = "SiteURL"
                           -> [acc EXCEPT !.SiteURL = out.value]
                      [] OTHER -> acc
         IN ReadOutputs(Tail(outs), next)

\* what DescribeStacks may answer to GetStackOutputs
OutputsAnswers ==
    IF ctxDone THEN {[kind |-> "err", outs |-> <<>>]}
    ELSE {[kind |-> "err", outs |-> <<>>], [kind |-> "empty", outs |-> <<>>]}
         \cup {[kind |-> "stack", outs |-> l] : l \in OutputLists}

\* GetStackOutputs, given the answer of DescribeStacks (lines 197-231)
GetStackOutputs(answer) ==
    IF answer.kind = "err" THEN [outputs |-> NoOutputs, err |-> "describe"]
    ELSE IF answer.kind = "empty" THEN [outputs |-> NoOutputs, err |-> "notFound"]
    ELSE [outputs |-> ReadOutputs(answer.outs, NoOutputs), err |-> None]

\* the outputs GetStackOutputs is applied to on its own: up to MaxOutputs
\* entries, with any of the four keys, another key or none, and a value or
\* none
OutputKeys ==
    {"BucketName", "DistributionId", "DistributionDomain", "SiteURL",
     "CertificateArn", None}

AnyOutputLists ==
    UNION {[1..n -> {OutputEntry(k, v) : k \in OutputKeys, v \in {"v1", "v2", None}}]
             : n \in 0..MaxOutputs}

OutputsInit ==
    /\ fname = "GetStackOutputs"
    /\ arg \in {[kind |-> "err", outs |-> <<>>], [kind |-> "empty", outs |-> <<>>]}
               \cup {[kind |-> "stack", outs |-> l] : l \in AnyOutputLists}
    /\ ret = <<>>

\* GetStackOutputs is called and returns
ApplyGetStackOutputs ==
    /\ fname = "GetStackOutputs"
    /\ ret = <<>>
    /\ ret' = <<GetStackOutputs(arg)>>
    /\ UNCHANGED <<fname, arg>>
    /\ UNCHANGED <<syncVars, ensureVars, waitVars, invVars, pubVars, provVars,
                   runBVars>>

\* the error runPublish returns: the call it came from and what that call
\* returned
PubError(from, e) == [from |-> from, err |-> e]

NoError == PubError(None, None)

\* process_test.go lines 290-300: what follows CreateOrUpdateStack
WaitAlways(res) == IF res.err # None THEN "failed" ELSE "wait"

IgnoreEnsureError(res) == IF res.started THEN "wait" ELSE "outputs"

AfterEnsure(res) ==
    IF res.err # None THEN "failed"
    ELSE IF res.started THEN "wait" ELSE "outputs"

\* lines 297-303: what follows WaitForStack
AfterWait(res) == IF res.kind = "ok" THEN "outputs" ELSE "failed"

\* the first result of SyncDirectory: the number of files it uploaded
SyncUploaded == uploaded

\* line 315
InvalidateAlways(n) == TRUE

NeedsInvalidation(n) == n > 0

\* lines 309-322: what follows SyncDirectory
IgnoreSyncError(e, n) == IF NeedsInvalidation(n) THEN "invalidate" ELSE "done"

AfterSync(e, n) ==
    IF e # None THEN "failed"
    ELSE IF NeedsInvalidation(n) THEN "invalidate" ELSE "done"

\* the call runPublish makes on entering a phase
CallOf(phase) ==
    CASE phase = "ensure" -> <<"CreateOrUpdateStack">>
      [] phase = "wait" -> <<"WaitForStack">>
      [] phase = "outputs" -> <<"GetStackOutputs">>
      [] phase = "sync" -> <<"SyncDirectory">>
      [] phase = "invalidate" -> <<"InvalidateDistribution">>
      [] OTHER -> <<>>

\* no second run
RunBParked ==
    /\ bpc = "idle"
    /\ bExists = [exists |-> FALSE, err |-> None]
    /\ bRequests = <<>>
    /\ bSubmitOut = Ok
    /\ bRes = NoResult
    /\ bSteps = <<>>

\* the second run reaches line 290 with the same stack name
RunBBegin ==
    /\ bpc = "idle"
    /\ bpc' = "check"
    /\ bSteps' = bSteps \o CallOf("ensure")
    /\ UNCHANGED <<bExists, bRequests, bSubmitOut, bRes>>
    /\ UNCHANGED <<syncVars, ensureVars, waitVars, invVars, pubVars, provVars,
                   fnVars>>

\* its existence check (cloudformation.go lines 86-89)
RunBCheck ==
    /\ bpc = "check"
    /\ \E answer \in DescribeAnswers(stackExists) :
         /\ bExists' = StackExists(answer)
         /\ IF StackExists(answer).err # None
            THEN /\ bRes' = [started |-> FALSE, err |-> "describe"]
                 /\ bpc' = "returned"
            ELSE /\ bRes' = bRes
                 /\ bpc' = "submit"
    /\ UNCHANGED <<bRequests, bSubmitOut, bSteps>>
    /\ UNCHANGED <<syncVars, ensureVars, waitVars, invVars, pubVars, provVars,
                   fnVars>>

\* its update or create submission (lines 91-120)
RunBSubmit ==
    /\ bpc = "submit"
    /\ LET op == SubmitOp(bExists.exists) IN
       \E answer \in SubmitAnswers(op) :
         /\ bRequests' = Append(bRequests, Request(op, params))
         /\ bSubmitOut' = answer
         /\ bRes' = SubmitResult(op, answer)
         /\ stackExists' = (stackExists \/ (op = "create" /\ answer.ok))
         /\ stackStatus' = IF answer.ok THEN InFlight(op) ELSE stackStatus
         /\ bpc' = "returned"
    /\ UNCHANGED <<bExists, bSteps>>
    /\ UNCHANGED <<params, epc, describeOut, existsRes, requests, submitOut,
                   ensureRes, calls>>
    /\ UNCHANGED <<syncVars, waitVars, invVars, pubVars, fnVars>>

\* its CreateOrUpdateStack has returned (process_test.go lines 290-300);
\* the second run is followed no further than its next call
RunBAfterEnsure ==
    /\ bpc = "returned"
    /\ LET next == AfterEnsure(bRes) IN
         /\ bpc' = next
         /\ bSteps' = bSteps \o CallOf(next)
    /\ UNCHANGED <<bExists, bRequests, bSubmitOut, bRes>>
    /\ UNCHANGED <<syncVars, ensureVars, waitVars, invVars, pubVars, provVars,
                   fnVars>>

\* no function applied on its own
FnParked ==
    /\ fname = None
    /\ arg = <<>>
    /\ ret = <<>>

\* the values a call on its own is given
PubParked ==
    /\ ppc = "idle"
    /\ outputs = ReadOutputs(FullOutputs, NoOutputs)
    /\ pubErr = NoError
    /\ steps = <<>>

PubInit ==
    /\ ppc = "idle"
    /\ outputs = NoOutputs
    /\ pubErr = NoError
    /\ steps = <<>>

\* the buckets a publish run may find: the stack's bucket holds at most the
\* objects "a" and "z"
PubRemotes == {r \in Remotes : KeyB \notin DOMAIN r}

\* runPublish reaches line 290
PubBegin ==
    /\ ppc = "idle"
    /\ ppc' = "ensure"
    /\ steps' = steps \o CallOf("ensure")
    /\ UNCHANGED <<outputs, pubErr>>
    /\ UNCHANGED <<syncVars, ensureVars, waitVars, invVars,
                   fnVars, runBVars, provVars>>

\* CreateOrUpdateStack has returned (lines 290-300)
PubAfterEnsure ==
    /\ ppc = "ensure"
    /\ epc = "done"
    /\ LET next == AfterEnsure(ensureRes) IN
         /\ ppc' = next
         /\ steps' = steps \o CallOf(next)
         /\ pubErr' = IF next = "failed"
                      THEN PubError("CreateOrUpdateStack", ensureRes.err)
                      ELSE pubErr
    /\ UNCHANGED outputs
    /\ UNCHANGED <<syncVars, ensureVars, waitVars, invVars,
                   fnVars, runBVars, provVars>>

\* WaitForStack has returned (lines 297-303); its ticker and its locals are
\* gone, its result stays
PubAfterWait ==
    /\ ppc = "wait"
    /\ wpc = "returned"
    /\ LET next == AfterWait(waitRes) IN
         /\ ppc' = next
         /\ steps' = steps \o CallOf(next)
         /\ pubErr' = IF next = "failed"
                      THEN PubError("WaitForStack", waitRes.kind)
                      ELSE pubErr
    /\ polls' = 0 /\ elapsed' = 0 /\ tickReady' = FALSE /\ pollLog' = <<>>
    /\ lastStatus' = None /\ events' = <<>> /\ eventsErr' = FALSE
    /\ UNCHANGED <<outputs, wpc, ctxDone, waitRes>>
    /\ UNCHANGED <<syncVars, ensureVars, invVars,
                   fnVars, runBVars, provVars>>

\* GetStackOutputs is called and returns (lines 303-309); the build directory
\* and the bucket are as SyncDirectory is about to find them
PubOutputs ==
    /\ ppc = "outputs"
    /\ \E answer \in OutputsAnswers :
         LET r == GetStackOutputs(answer) IN
         IF r.err # None
         THEN /\ ppc' = "failed"
              /\ pubErr' = PubError("GetStackOutputs", r.err)
              /\ UNCHANGED <<outputs, steps, tree, remote, remote0>>
         ELSE /\ ppc' = "sync"
              /\ outputs' = r.outputs
              /\ steps' = steps \o CallOf("sync")
              /\ tree' \in Trees
              /\ remote' \in PubRemotes
              /\ remote0' = remote'
              /\ UNCHANGED pubErr
    /\ UNCHANGED <<sep, pc, existing, pageNo, files, idx, uploaded, skipped, err,
                   putLog, decisions, run, listErrPage, prevOk,
                   prevUploaded, errPath>>
    /\ UNCHANGED <<ensureVars, waitVars, invVars,
                   fnVars, runBVars, provVars>>

\* SyncDirectory has returned (lines 309-322)
PubAfterSync ==
    /\ ppc = "sync"
    /\ pc = "done"
    /\ LET next == AfterSync(err, SyncUploaded) IN
         /\ ppc' = next
         /\ steps' = steps \o CallOf(next)
         /\ pubErr' = IF next = "failed" THEN PubError("SyncDirectory", err)
                      ELSE pubErr
    /\ UNCHANGED outputs
    /\ UNCHANGED <<syncVars, ensureVars, waitVars, invVars,
                   fnVars, runBVars, provVars>>

\* InvalidateDistribution has returned (lines 316-322)
PubAfterInvalidate ==
    /\ ppc = "invalidate"
    /\ ipc = "returned"
    /\ ppc' = IF invRes = "ok" THEN "done" ELSE "failed"
    /\ pubErr' = IF invRes = "ok" THEN pubErr
                 ELSE PubError("InvalidateDistribution", invRes)
    /\ UNCHANGED <<outputs, steps>>
    /\ UNCHANGED <<syncVars, ensureVars, waitVars, invVars,
                   fnVars, runBVars, provVars>>

(***************************************************************************)
(* Specifications.                                                         *)
(***************************************************************************)
SyncParked ==
    /\ sep = "/"
    /\ tree = TreeOf("absent", "absent")
    /\ remote = <<>>
    /\ pc = "idle"
    /\ existing = <<>>
    /\ pageNo = 0
    /\ files = <<>>
    /\ idx = 0
    /\ uploaded = 0
    /\ skipped = 0
    /\ err = None
    /\ putLog = <<>>
    /\ decisions = <<>>
    /\ remote0 = <<>>
    /\ run = 0
    /\ listErrPage = 0
    /\ prevOk = FALSE
    /\ prevUploaded = {}
    /\ errPath = <<>>

\* content sync on its own
Init ==
    /\ SyncInit /\ EnsureParked /\ WaitParked /\ InvParked /\ PubParked
    /\ RunBParked /\ FnParked

Next == SyncStart \/ ListPage \/ Walk \/ ProcessFile \/ Touch

Spec == Init /\ [][Next]_vars

\* CreateOrUpdateStack on its own
InitEnsure ==
    /\ SyncParked /\ EnsureInit /\ WaitParked /\ InvParked /\ PubParked
    /\ RunBParked /\ FnParked

NextEnsure == EnsureStart \/ EnsureCheck \/ EnsureSubmit

SpecEnsure == InitEnsure /\ [][NextEnsure]_vars

\* one blocking wait on its own: WaitForStack or InvalidateDistribution
InitWait ==
    /\ SyncParked /\ EnsureParked /\ WaitParked /\ InvParked /\ PubParked
    /\ RunBParked /\ FnParked

NextWait ==
    \/ (ipc = "idle" /\ WaitStart)
    \/ CtxCancel
    \/ Tick
    \/ WaitCancelled
    \/ Poll
    \/ (wpc = "idle" /\ InvCreate)
    \/ InvTick
    \/ InvCancelled
    \/ InvPoll

SpecWait == InitWait /\ [][NextWait]_vars

\* the same with fairness: the deadline of the context passes (it is set
\* once, line 203 of runPublish), and a select with a ready case takes one,
\* the ctx.Done() case among them when it stays ready
FairWait ==
    /\ WF_vars(CtxCancel)
    /\ WF_vars(WaitCancelled)
    /\ WF_vars(InvCancelled)

SpecWaitFair == InitWait /\ [][NextWait]_vars /\ FairWait

\* one publish run from its stack submission on (runPublish, lines 290-322)
InitPublish ==
    /\ SyncParked
    /\ EnsureInit /\ params.Subdomain = "s1" /\ params.HostedZoneID = "Z1"
    /\ WaitParked /\ InvParked /\ PubInit
    /\ RunBParked /\ FnParked

NextPublish ==
    \/ PubBegin
    \/ (ppc = "ensure" /\ epc = "idle" /\ EnsureStart)
    \/ (ppc = "ensure" /\ EnsureCheck)
    \/ (ppc = "ensure" /\ EnsureSubmit)
    \/ PubAfterEnsure
    \/ (ppc = "wait" /\ WaitStart)
    \/ (ppc = "wait" /\ Tick)
    \/ (ppc = "wait" /\ WaitCancelled)
    \/ (ppc = "wait" /\ Poll)
    \/ PubAfterWait
    \/ PubOutputs
    \/ (ppc = "sync" /\ pc = "idle" /\ SyncStart)
    \/ (ppc = "sync" /\ ListPage)
    \/ (ppc = "sync" /\ Walk)
    \/ (ppc = "sync" /\ ProcessFile)
    \/ PubAfterSync
    \/ (ppc = "invalidate" /\ InvCreate)
    \/ (ppc = "invalidate" /\ InvTick)
    \/ (ppc = "invalidate" /\ InvCancelled)
    \/ (ppc = "invalidate" /\ InvPoll)
    \/ PubAfterInvalidate
    \/ CtxCancel

SpecPublish == InitPublish /\ [][NextPublish]_vars

\* two publish runs on one stack name, the first followed to the end of its
\* wait, the second to the call after its submission; the stack has no
\* events to report
InitConcurrent ==
    /\ SyncParked
    /\ EnsureInit /\ params.Subdomain = "s1" /\ params.HostedZoneID = "Z1"
    /\ WaitParked /\ InvParked /\ PubInit
    /\ RunBParked /\ FnParked

NextConcurrent ==
    \/ PubBegin
    \/ (ppc = "ensure" /\ epc = "idle" /\ EnsureStart)
    \/ (ppc = "ensure" /\ EnsureCheck)
    \/ (ppc = "ensure" /\ EnsureSubmit)
    \/ PubAfterEnsure
    \/ (ppc = "wait" /\ WaitStart)
    \/ (ppc = "wait" /\ Tick)
    \/ (ppc = "wait" /\ WaitCancelled)
    \/ (ppc = "wait" /\ events' = <<>> /\ Poll)
    \/ PubAfterWait
    \/ CtxCancel
    \/ RunBBegin
    \/ RunBCheck
    \/ RunBSubmit
    \/ RunBAfterEnsure

SpecConcurrent == InitConcurrent /\ [][NextConcurrent]_vars

\* GetStackOutputs on its own
InitOutputs ==
    /\ SyncParked /\ EnsureParked /\ WaitParked /\ InvParked /\ PubParked
    /\ RunBParked /\ OutputsInit

NextOutputs == ApplyGetStackOutputs

SpecOutputs == InitOutputs /\ [][NextOutputs]_vars

(***************************************************************************)
(* Properties of the content sync.                                         *)
(***************************************************************************)
\* the forward-slash relative key of a local file, from its names
SlashKey(names) == JoinPath(names, "/")

LocalKeys == {SlashKey(n) : n \in LocalFiles}

\* the local file the i-th loop iteration was about
NamesAt(i) == CHOOSE n \in LocalFiles : PathOf(n) = files[i]

\* its lowercase hex digest
DigestOf(names) == HexEncode(Md5Sum(tree[names].content))

\* a fingerprint without the quote characters around it
Stripped(etag) ==
    LET inner == {i \in 1..Len(etag) : etag[i] # Quote} IN
    IF inner = {} THEN <<>>
    ELSE SubSeq(etag, CHOOSE i \in inner : \A j \in inner : i <= j,
                      CHOOSE i \in inner : \A j \in inner : i >= j)

PutCount(key) == Cardinality({j \in 1..Len(putLog) : putLog[j] = key})

Completed == pc = "done" /\ err = None

\* C1: every local file the loop has dealt with was skipped, with no
\* PutObject for its key, exactly when its forward-slash key is in the remote
\* index with a fingerprint that, stripped of its quotes, is the file's MD5
\* hex digest; otherwise exactly one PutObject was issued for its key.  The
\* modification time plays no part, and a run that returns nil has dealt
\* with every local file.
C1_SkipIffSameFingerprint ==
    /\ \A i \in 1..Len(decisions) :
         LET key  == SlashKey(NamesAt(i))
             same == /\ key \in DOMAIN existing
                     /\ Stripped(existing[key]) = DigestOf(NamesAt(i))
         IN /\ (decisions[i] = "skipped") <=> same
            /\ (decisions[i] = "uploaded") <=> ~same
            /\ PutCount(key) = IF same THEN 0 ELSE 1
    /\ \A j \in 1..Len(putLog) : PutCount(putLog[j]) = 1
    /\ Completed => Len(decisions) = Cardinality(LocalFiles)

\* C1 witness: the second run, after a.txt was touched, ends with a.txt
\* skipped and only d/b transferred: uploaded = 1, skipped = 1
C1_Witness ==
    /\ Completed /\ run = 2
    /\ <<"a">> \in DOMAIN tree
    /\ tree[<<"a">>].mtime = 1
    /\ decisions = <<"skipped", "uploaded">>
    /\ putLog = <<KeyB>>
    /\ uploaded = 1 /\ skipped = 1

\* C2: uploaded + skipped is the number of files dealt with so far, each
\* counted once, and the number of local files when the run returns nil
C2_CountInvariant ==
    /\ uploaded + skipped = Len(decisions)
    /\ uploaded = Cardinality({i \in 1..Len(decisions) : decisions[i] = "uploaded"})
    /\ skipped = Cardinality({i \in 1..Len(decisions) : decisions[i] = "skipped"})
    /\ pc = "loop" => uploaded + skipped = idx - 1
    /\ Completed => uploaded + skipped = Cardinality(LocalFiles)

\* C2 witness: a finished run over two files, one of each kind
C2_Witness ==
    /\ Completed /\ Cardinality(LocalFiles) = 2
    /\ uploaded = 1 /\ skipped = 1

ListedBefore(n) ==
    LET keys == {ListingFrom(remote0, 1)[i] : i \in 1..((n - 1) * PageSize)} IN
    [k \in keys |-> remote0[k]]

C5_NoFilesIsError ==
    LocalFiles = {}
        => /\ putLog = <<>>
           /\ remote = remote0
           /\ pc = "done" => err \in {"walk", "nofiles"}
           /\ pc \notin {"loop"}

\* C5 witness: a root holding only a directory, a non-empty bucket, and the
\* run ended with the no-files error
C5_Witness ==
    /\ pc = "done" /\ err = "nofiles"
    /\ LocalFiles = {} /\ <<"d">> \in DOMAIN tree
    /\ remote # <<>>

\* C6: every object that was in the bucket when the run started, under a key
\* that is no local file's key, is still there with the same fingerprint; no
\* key has disappeared; every key that changed is a local file's key for
\* which a PutObject was issued
C6_OrphansUntouched ==
    /\ \A k \in DOMAIN remote0 :
         /\ k \in DOMAIN remote
         /\ k \notin LocalKeys => remote[k] = remote0[k]
    /\ \A k \in DOMAIN remote :
         (k \notin DOMAIN remote0 \/ remote[k] # remote0[k])
            => (k \in LocalKeys /\ PutCount(k) = 1)
    /\ \A j \in 1..Len(putLog) : putLog[j] \in LocalKeys

\* C6 witness: a run aborted after an upload, with an orphan in the bucket
C6_Witness ==
    /\ pc = "done" /\ err = "upload" /\ uploaded = 1
    /\ KeyZ \in DOMAIN remote0
    /\ remote # remote0

\* C7: a file whose key is in the index with its digest wrapped in double
\* quotes is skipped; a file whose key is not in the index, or is there
\* with another digest between the quotes, is uploaded
C7_QuotedFingerprintEqual ==
    \A i \in 1..Len(decisions) :
        LET key    == SlashKey(NamesAt(i))
            quoted == <<Quote>> \o DigestOf(NamesAt(i)) \o <<Quote>>
        IN /\ (key \in DOMAIN existing /\ existing[key] = quoted)
                 => decisions[i] = "skipped"
           /\ key \notin DOMAIN existing => decisions[i] = "uploaded"
           /\ (key \in DOMAIN existing
               /\ \E c \in Contents :
                    /\ c # tree[NamesAt(i)].content
                    /\ existing[key] = <<Quote>> \o HexEncode(Md5Sum(c)) \o <<Quote>>)
                 => decisions[i] = "uploaded"

\* C7 witness: a skipped file whose remote fingerprint is its quoted digest,
\* and an uploaded one with another quoted digest
C7_Witness ==
    /\ Len(decisions) = 2
    /\ decisions = <<"skipped", "uploaded">>
    /\ KeyA \in DOMAIN existing
    /\ existing[KeyA] = <<Quote, "a", "b", Quote>>
    /\ tree[<<"a">>].content = "c1"
    /\ KeyB \in DOMAIN existing
    /\ existing[KeyB] = <<Quote, "3", "f", Quote>>
    /\ tree[<<"d", "b">>].content = "c1"

(***************************************************************************)
(* Properties of WaitForStack.                                             *)
(***************************************************************************)
SuccessStatuses == {"CREATE_COMPLETE", "UPDATE_COMPLETE"}

FailureStatuses ==
    {"CREATE_FAILED", "ROLLBACK_COMPLETE", "ROLLBACK_FAILED",
     "UPDATE_ROLLBACK_COMPLETE", "UPDATE_ROLLBACK_FAILED", "DELETE_COMPLETE",
     "DELETE_FAILED"}

\* C8: a poll that observes one of the two success statuses makes the wait
\* return success; one that observes one of the seven failure statuses makes
\* it return a failure naming that status; after any other status the wait
\* goes on (and can then end only by cancellation); success is returned
\* only with a success status observed last
C8_StatusClassification ==
    /\ lastStatus \in SuccessStatuses
         => (wpc = "returned" /\ waitRes.kind = "ok")
    /\ lastStatus \in FailureStatuses
         => (wpc = "returned" /\ waitRes.kind = "failed"
             /\ waitRes.status = lastStatus)
    /\ lastStatus \in StackStatuses \ (SuccessStatuses \cup FailureStatuses)
         => (wpc = "waiting" \/ (wpc = "returned" /\ waitRes.kind = "cancelled"))
    /\ (wpc = "returned" /\ waitRes.kind = "ok") => lastStatus \in SuccessStatuses

\* C8 witness: after two polls that saw non-terminal statuses, a third saw
\* UPDATE_ROLLBACK_COMPLETE and the wait returned a failure naming it
C8_Witness ==
    /\ wpc = "returned" /\ polls = 3
    /\ lastStatus = "UPDATE_ROLLBACK_COMPLETE"
    /\ waitRes.kind = "failed" /\ waitRes.status = "UPDATE_ROLLBACK_COMPLETE"

\* the positions of the create/update failure events that carry a reason
FailureEvents ==
    {i \in 1..Len(events) :
        /\ events[i].status \in {"CREATE_FAILED", "UPDATE_FAILED"}
        /\ events[i].hasReason}

\* C9 as stated: a failure carries a non-empty reason: the reason text of
\* the most recent create/update failure event, and "unknown reason" when no
\* such event with a reason is found
C9_AsStated ==
    (wpc = "returned" /\ waitRes.kind = "failed")
        => /\ waitRes.reason # ""
           /\ FailureEvents # {}
                => \E i \in FailureEvents :
                      /\ \A j \in FailureEvents : i <= j
                      /\ waitRes.reason = events[i].reason
           /\ FailureEvents = {} => waitRes.reason = "unknown reason"

\* C9 amended: a failure carries a non-empty reason: the reason text of the
\* most recent create/update failure event that has one; "unknown reason"
\* when the events were read and hold no such event; "unable to get failure
\* reason" when reading the events failed
C9_FailureReason ==
    (wpc = "returned" /\ waitRes.kind = "failed")
        => /\ waitRes.reason # ""
           /\ (~eventsErr /\ FailureEvents # {})
                => \E i \in FailureEvents :
                      /\ \A j \in FailureEvents : i <= j
                      /\ waitRes.reason = events[i].reason
           /\ (~eventsErr /\ FailureEvents = {})
                => waitRes.reason = "unknown reason"
           /\ eventsErr => waitRes.reason = "unable to get failure reason"

\* C9 witness: the newest event has no reason, the next is a create failure
\* with one, and that is the reason returned
C9_Witness ==
    /\ wpc = "returned" /\ waitRes.kind = "failed"
    /\ ~eventsErr /\ Len(events) = 2
    /\ events[1].status = "UPDATE_FAILED" /\ ~events[1].hasReason
    /\ events[2].status = "CREATE_FAILED" /\ events[2].reason = "r1"
    /\ waitRes.reason = "r1"

(***************************************************************************)
(* Properties of CreateOrUpdateStack.                                      *)
(***************************************************************************)
\* C10: a call that has returned submitted no request when the existence
\* check failed, and then returned (false, error); otherwise exactly one: an
\* update when the check said the stack exists, a create when it said not;
\* the request carries the three parameters, the template body and the IAM
\* capability; true is returned only when the provider accepted the request
C10_OneSubmission ==
    /\ epc \in {"check", "submit"} => requests = <<>>
    /\ epc = "done" =>
         /\ existsRes.err # None
              => (requests = <<>> /\ ~ensureRes.started /\ ensureRes.err # None)
         /\ existsRes.err = None
              => /\ Len(requests) = 1
                 /\ requests[1].op = IF existsRes.exists THEN "update" ELSE "create"
                 /\ requests[1].stackName = params.StackName
                 /\ requests[1].template = Template
                 /\ requests[1].capabilities = {"CAPABILITY_IAM"}
                 /\ requests[1].parameters =
                      << [key |-> "Subdomain", value |-> params.Subdomain],
                         [key |-> "DomainName", value |-> params.DomainName],
                         [key |-> "HostedZoneId", value |-> params.HostedZoneID] >>
         /\ ensureRes.started
              => (Len(requests) = 1 /\ submitOut.ok /\ ensureRes.err = None)

\* C10 witness: the second call found the stack the first had created, and
\* its update was accepted
C10_Witness ==
    /\ epc = "done" /\ calls = 2
    /\ Len(requests) = 1 /\ requests[1].op = "update"
    /\ ensureRes.started
    /\ params.Subdomain = "s2"

\* the words w occur in the message, one after the other
HasWords(msg, w) ==
    \E i \in 1..Len(msg) : \E j \in i..Len(msg) : SubSeq(msg, i, j) = w

\* StackExists has returned and its DescribeStacks answer is on record
ExistenceChecked == calls > 0 /\ epc \in {"submit", "done"}

\* C13: StackExists returns (true, nil) when DescribeStacks succeeded,
\* (false, nil) when it failed with the typed stack-not-found error or with a
\* message that contains "does not exist", and (false, error) for every
\* other failure; it never returns true together with an error
C13_StackExistsOutcomes ==
    /\ ~(existsRes.exists /\ existsRes.err # None)
    /\ ExistenceChecked =>
         /\ describeOut.ok => existsRes = [exists |-> TRUE, err |-> None]
         /\ (~describeOut.ok
               /\ (describeOut.typed \/ HasWords(describeOut.msg, <<"does", "not", "exist">>)))
              => existsRes = [exists |-> FALSE, err |-> None]
         /\ (~describeOut.ok /\ ~describeOut.typed
               /\ ~HasWords(describeOut.msg, <<"does", "not", "exist">>))
              => (~existsRes.exists /\ existsRes.err # None)

\* C13 witness: an untyped failure whose message holds "does not exist" in
\* its middle was taken for an absent stack
C13_Witness ==
    /\ ExistenceChecked
    /\ ~describeOut.ok /\ ~describeOut.typed
    /\ describeOut.msg = <<"Stack", "with", "id", "x", "does", "not", "exist">>
    /\ existsRes = [exists |-> FALSE, err |-> None]

(***************************************************************************)
(* Properties of the two poll loops.                                       *)
(***************************************************************************)
LastOf(log) == log[Len(log)]

\* C14: a poll loop fetches no status before its ticker has fired, and at
\* most one per firing; only a non-terminal status is followed by another
\* fetch, and a failed fetch ends the wait with the fetch error
C14_FetchOnTickOnly ==
    /\ polls <= elapsed
    /\ Len(invLog) <= ielapsed
    /\ wpc # "idle" => Len(pollLog) = polls
    /\ \A i \in 1..(Len(pollLog) - 1) : pollLog[i] = "continue"
    /\ \A i \in 1..(Len(invLog) - 1) : invLog[i] \notin {"err", "Completed"}
    /\ (pollLog # <<>> /\ LastOf(pollLog) = "err")
         => (wpc = "returned" /\ waitRes.kind = "describeErr")
    /\ (invLog # <<>> /\ LastOf(invLog) = "err")
         => (ipc = "returned" /\ invRes = "fetchErr")

\* C14 witness: three intervals passed, one tick was dropped, the second of
\* two fetches failed and WaitForStack returned that failure
C14_Witness ==
    /\ wpc = "returned" /\ waitRes.kind = "describeErr"
    /\ elapsed = 3 /\ polls = 2
    /\ pollLog = <<"continue", "err">>

\* C15 as stated: a wait that returns after the context was cancelled, no
\* terminal status classified, returns the context's error and no other
C15_AsStated ==
    /\ (wpc = "returned" /\ ctxDone
          /\ (pollLog = <<>> \/ LastOf(pollLog) \notin {"success", "failure"}))
         => waitRes.kind = "cancelled"
    /\ (ipc = "returned" /\ ctxDone
          /\ (invLog = <<>> \/ LastOf(invLog) # "Completed"))
         => invRes = "cancelled"

\* C15: a wait that returns after the context was cancelled returns an error:
\* the context's error when the select took the ctx.Done() case, the failure
\* of a request made with the cancelled context when it took a pending tick
\* (or, for the invalidation, when the create request was made); success is
\* returned only for an observed success status
C15_CancelOutcome ==
    /\ (wpc = "returned" /\ ctxDone)
         => waitRes.kind \in {"cancelled", "describeErr"}
    /\ waitRes.kind = "cancelled"
         => (ctxDone /\ (pollLog = <<>> \/ LastOf(pollLog) = "continue"))
    /\ waitRes.kind = "describeErr" => (pollLog # <<>> /\ LastOf(pollLog) = "err")
    /\ waitRes.kind = "ok" => (pollLog # <<>> /\ LastOf(pollLog) = "success")
    /\ (ipc = "returned" /\ ctxDone)
         => invRes \in {"cancelled", "fetchErr", "createErr"}
    /\ invRes = "cancelled"
         => (ctxDone /\ (invLog = <<>> \/ LastOf(invLog) \notin {"err", "Completed"}))
    /\ invRes = "ok" => (invLog # <<>> /\ LastOf(invLog) = "Completed")

\* C15 witness: the context was cancelled after two polls saw a stack in
\* progress, and WaitForStack returned the context's error
C15_Witness ==
    /\ wpc = "returned" /\ ctxDone
    /\ waitRes.kind = "cancelled"
    /\ pollLog = <<"continue", "continue">>

\* C16: InvalidateDistribution returns nil only after a poll saw "Completed";
\* no other status ends the wait, and an error is returned only for a
\* rejected create request, a failed status fetch, or a cancelled context
C16_OnlyCompletedEnds ==
    /\ invRes \in {None, "ok", "createErr", "fetchErr", "cancelled"}
    /\ (invRes # None) = (ipc = "returned")
    /\ invRes = "ok" => (invLog # <<>> /\ LastOf(invLog) = "Completed")
    /\ \A i \in 1..Len(invLog) :
         invLog[i] \in InvStatuses \ {"Completed"}
           => (i < Len(invLog) \/ ipc = "waiting" \/ invRes = "cancelled")
    /\ invRes = "createErr" => invLog = <<>>
    /\ invRes = "fetchErr" => (invLog # <<>> /\ LastOf(invLog) = "err")
    /\ invRes = "cancelled" => ctxDone

\* C16 witness: two other statuses were polled before "Completed"
C16_Witness ==
    /\ ipc = "returned" /\ invRes = "ok"
    /\ invLog = <<"Pending", "InProgress", "Completed">>

\* C17: when the deadline of the context passes, a WaitForStack and an
\* InvalidateDistribution that are waiting return; a wait that saw no success
\* status (no "Completed") returns an error
C17_WaitsReturn ==
    /\ (wpc = "waiting") ~> (wpc = "returned")
    /\ (ipc = "waiting") ~> (ipc = "returned")
    /\ [](wpc = "returned" /\ lastStatus \notin {"CREATE_COMPLETE", "UPDATE_COMPLETE"}
            => waitRes.kind \in {"cancelled", "describeErr", "notFound", "failed"})
    /\ [](ipc = "returned" /\ (\A i \in 1..Len(invLog) : invLog[i] # "Completed")
            => invRes \in {"cancelled", "fetchErr", "createErr"})

\* C17 witness: the invalidation never reported "Completed" and the wait
\* ended with the context's error
C17_Witness ==
    /\ ipc = "returned" /\ invRes = "cancelled"
    /\ Len(invLog) = MaxPolls
    /\ \A i \in 1..Len(invLog) : invLog[i] = "InProgress"

(***************************************************************************)
(* Properties of one publish run.                                          *)
(***************************************************************************)
\* the provider has answered the one submission of this run
Submitted == epc = "done" /\ Len(requests) = 1

\* the provider rejected an update with "No updates are to be performed"
NoOpUpdate ==
    /\ Submitted /\ requests[1].op = "update" /\ ~submitOut.ok
    /\ HasWords(submitOut.msg, <<"No", "updates", "are", "to", "be", "performed">>)

\* the provider rejected the submission in any other way
Rejected == Submitted /\ ~submitOut.ok /\ ~NoOpUpdate

Made(call) == \E i \in 1..Len(steps) : steps[i] = call

\* C11: after a no-op update CreateOrUpdateStack returns (false, nil); the
\* run makes no WaitForStack call, its next call is GetStackOutputs, and
\* SyncDirectory follows when the outputs were read
C11_NoOpUpdateContinues ==
    NoOpUpdate =>
      /\ ensureRes = [started |-> FALSE, err |-> None]
      /\ wpc = "idle" /\ ~Made("WaitForStack")
      /\ ppc \in {"ensure", "outputs", "sync", "invalidate", "done", "failed"}
      /\ ppc # "ensure" => (Len(steps) >= 2 /\ steps[2] = "GetStackOutputs")
      /\ ppc = "failed"
           => pubErr.from \in {"GetStackOutputs", "SyncDirectory",
                               "InvalidateDistribution"}
      /\ (ppc \in {"sync", "invalidate", "done"}
            \/ pubErr.from \in {"SyncDirectory", "InvalidateDistribution"})
           => (Len(steps) >= 3 /\ steps[3] = "SyncDirectory" /\ pc # "idle")
              \/ (ppc = "sync" /\ pc = "idle")

\* C11 witness: a run with a no-op update went on to the end without a wait
C11_Witness ==
    /\ NoOpUpdate
    /\ submitOut.msg = <<"ValidationError", "No", "updates", "are", "to", "be", "performed">>
    /\ ppc = "done"
    /\ steps = <<"CreateOrUpdateStack", "GetStackOutputs", "SyncDirectory">>
    /\ skipped = 1

\* C12: every other rejected submission makes CreateOrUpdateStack return
\* (false, error), and the run returns that error having made no other call
C12_RejectionEndsRun ==
    Rejected =>
      /\ ~ensureRes.started /\ ensureRes.err # None
      /\ ppc \in {"ensure", "failed"}
      /\ ppc = "failed" => pubErr = PubError("CreateOrUpdateStack", ensureRes.err)
      /\ steps = <<"CreateOrUpdateStack">>
      /\ wpc = "idle" /\ polls = 0
      /\ pc = "idle" /\ putLog = <<>>
      /\ ipc = "idle" /\ invRequests = <<>>

\* C12 witness: a create was rejected with the no-update message, and the
\* run has failed
C12_Witness ==
    /\ Rejected /\ requests[1].op = "create"
    /\ HasWords(submitOut.msg, <<"No", "updates", "are", "to", "be", "performed">>)
    /\ ppc = "failed"

UploadDecisions == {i \in 1..Len(decisions) : decisions[i] = "uploaded"}

\* C18: a run makes at most one CreateInvalidation request, and only after
\* SyncDirectory returned nil having uploaded a file; a run that has ended
\* made one exactly when its sync returned nil with at least one upload
C18_InvalidationGate ==
    /\ Len(invRequests) <= 1
    /\ ipc # "idle" => Len(invRequests) = 1
    /\ invRequests # <<>>
         => (pc = "done" /\ err = None /\ UploadDecisions # {})
    /\ ppc \in {"done", "failed"}
         => ((invRequests # <<>>)
               <=> (pc = "done" /\ err = None /\ UploadDecisions # {}))

\* C18 witness: one file was skipped, one uploaded, and one invalidation
\* was requested for the distribution of the outputs
C18_Witness ==
    /\ ppc = "done"
    /\ decisions = <<"skipped", "uploaded">>
    /\ Len(invRequests) = 1 /\ invRequests[1].distributionId = "D1"

\* the calls of a run in their order
CallOrder ==
    <<"CreateOrUpdateStack", "WaitForStack", "GetStackOutputs", "SyncDirectory",
      "InvalidateDistribution">>

CallOrderNoWait ==
    <<"CreateOrUpdateStack", "GetStackOutputs", "SyncDirectory",
      "InvalidateDistribution">>

IsPrefix(a, b) == Len(a) <= Len(b) /\ SubSeq(b, 1, Len(a)) = a

Active ==
    {c \in {"ensure", "wait", "sync", "invalidate"} :
        \/ c = "ensure" /\ epc \in {"check", "submit"}
        \/ c = "wait" /\ wpc = "waiting"
        \/ c = "sync" /\ pc \in {"list", "walk", "loop"}
        \/ c = "invalidate" /\ ipc = "waiting"}

\* C19: the submission precedes the wait, the wait happens exactly when an
\* operation was started, the outputs are read after the wait succeeded or
\* was skipped, the sync starts after the outputs were read, the invalidation
\* after the sync returned, and no two of them run at once
C19_PhaseOrder ==
    /\ IsPrefix(steps, CallOrder) \/ IsPrefix(steps, CallOrderNoWait)
    /\ Cardinality(Active) <= 1
    /\ wpc # "idle" => (epc = "done" /\ ensureRes.started /\ ensureRes.err = None)
    /\ (epc = "done" /\ ensureRes.started /\ ppc # "ensure") => Made("WaitForStack")
    /\ Made("WaitForStack") => ensureRes.started
    /\ Made("GetStackOutputs")
         => \/ wpc = "returned" /\ waitRes.kind = "ok"
            \/ wpc = "idle" /\ epc = "done" /\ ~ensureRes.started
                 /\ ensureRes.err = None
    /\ pc # "idle" => (Made("GetStackOutputs") /\ ppc # "outputs"
                        /\ outputs # NoOutputs)
    /\ ipc # "idle" => (pc = "done" /\ Made("SyncDirectory"))

\* C19 witness: a run that made all five calls
C19_Witness ==
    /\ ppc = "done"
    /\ steps = CallOrder
    /\ waitRes.status = "CREATE_COMPLETE"

\* C20: a call that returned an error ends the run with that error; no later
\* call is made and none is made twice
C20_ErrorsAbort ==
    /\ calls <= 1 /\ run <= 1 /\ Len(invRequests) <= 1
    /\ \A i, j \in 1..Len(steps) : steps[i] = steps[j] => i = j
    /\ (ppc = "failed") = (pubErr # NoError)
    /\ (epc = "done" /\ ensureRes.err # None)
         => /\ steps = <<"CreateOrUpdateStack">>
            /\ ppc \in {"ensure", "failed"}
            /\ ppc = "failed" => pubErr = PubError("CreateOrUpdateStack", ensureRes.err)
            /\ wpc = "idle" /\ pc = "idle" /\ ipc = "idle"
    /\ (wpc = "returned" /\ waitRes.kind # "ok")
         => /\ steps = <<"CreateOrUpdateStack", "WaitForStack">>
            /\ ppc \in {"wait", "failed"}
            /\ ppc = "failed" => pubErr = PubError("WaitForStack", waitRes.kind)
            /\ pc = "idle" /\ putLog = <<>> /\ ipc = "idle"
    /\ pubErr.from = "GetStackOutputs"
         => (~Made("SyncDirectory") /\ pc = "idle" /\ putLog = <<>> /\ ipc = "idle")
    /\ (pc = "done" /\ err # None)
         => /\ ~Made("InvalidateDistribution")
            /\ ppc \in {"sync", "failed"}
            /\ ppc = "failed" => pubErr = PubError("SyncDirectory", err)
            /\ ipc = "idle" /\ invRequests = <<>>
    /\ (ipc = "returned" /\ invRes # "ok")
         => /\ ppc \in {"invalidate", "failed"}
            /\ ppc = "failed" => pubErr = PubError("InvalidateDistribution", invRes)
    /\ ppc = "done"
         => (ensureRes.err = None /\ err = None /\ invRes \in {None, "ok"}
              /\ (wpc = "returned" => waitRes.kind = "ok"))

\* C20 witness: the stack ended in a failure status; the run returned the
\* error of the wait, and nothing was uploaded
C20_Witness ==
    /\ ppc = "failed" /\ pubErr = PubError("WaitForStack", "failed")
    /\ waitRes.status = "ROLLBACK_COMPLETE" /\ waitRes.reason = "r1"
    /\ pc = "idle" /\ putLog = <<>>

(***************************************************************************)
(* Properties of GetStackOutputs.                                          *)
(***************************************************************************)
\* the value of the last entry of outs that has key k and a value ("": none)
LastValue(outs, k) ==
    LET I == {i \in 1..Len(outs) : outs[i].key = k /\ outs[i].value # None}
    IN IF I = {} THEN ""
       ELSE outs[CHOOSE i \in I : \A j \in I : j <= i].value

OutputsRead == fname = "GetStackOutputs" /\ ret # <<>> /\ arg.kind = "stack"

\* C21: GetStackOutputs gives each of its four fields the value of the
\* output with the key BucketName, DistributionId, DistributionDomain or
\* SiteURL; entries with another key, or without key or value, change no
\* field; outputs with none of the four keys give the zero struct, no error
C21_FourKeysMapped ==
    OutputsRead =>
      /\ ret[1].err = None
      /\ ret[1].outputs.BucketName = LastValue(arg.outs, "BucketName")
      /\ ret[1].outputs.DistributionID = LastValue(arg.outs, "DistributionId")
      /\ ret[1].outputs.DistributionDomain = LastValue(arg.outs, "DistributionDomain")
      /\ ret[1].outputs.SiteURL = LastValue(arg.outs, "SiteURL")
      /\ DOMAIN ret[1].outputs
           = {"BucketName", "DistributionID", "DistributionDomain", "SiteURL"}

\* C21 witness: an output with a key of no interest and one without value
\* gave the zero struct and no error
C21_Witness ==
    /\ OutputsRead
    /\ arg.outs = <<[key |-> "CertificateArn", value |-> "v1"],
                    [key |-> "BucketName", value |-> None]>>
    /\ ret[1].err = None
    /\ ret[1].outputs = [BucketName |-> "", DistributionID |-> "",
                         DistributionDomain |-> "", SiteURL |-> ""]

(***************************************************************************)
(* Properties of the outputs a publish run uses.                           *)
(***************************************************************************)
\* C22: SyncDirectory is never started with an empty bucket name, and no
\* invalidation is requested with an empty distribution id
C22_AsStated ==
    /\ pc # "idle" => outputs.BucketName # ""
    /\ \A i \in 1..Len(invRequests) : invRequests[i].distributionId # ""

(***************************************************************************)
(* Properties of a sync run that follows an aborted one.                   *)
(***************************************************************************)
\* the second run follows a run that failed after it had uploaded a file;
\* its own listing and uploads worked and it has returned
Resumed ==
    /\ run = 2 /\ ~prevOk /\ prevUploaded # {}
    /\ listErrPage = 0 /\ Completed

\* C23: a run that follows an aborted one lists the bucket again, skips
\* every file the aborted run uploaded, uploads only files whose key the
\* bucket lacked or held with another fingerprint, and leaves every local
\* file in the bucket
C23_ResumeAfterAbort ==
    /\ (run = 2 /\ ~prevOk /\ pc = "list" /\ pageNo = 1) => existing = <<>>
    /\ (run = 2 /\ ~prevOk /\ listErrPage = 0 /\ pc \in {"walk", "loop", "done"})
         => (DOMAIN existing = DOMAIN remote0
               /\ \A k \in DOMAIN remote0 : existing[k] = remote0[k])
    /\ Resumed =>
         /\ \A k \in prevUploaded : PutCount(k) = 0
         /\ \A i \in 1..Len(decisions) :
              decisions[i] = "uploaded"
                => LET k == SlashKey(NamesAt(i)) IN
                   \/ k \notin DOMAIN remote0
                   \/ Stripped(remote0[k]) # DigestOf(NamesAt(i))
         /\ \A n \in LocalFiles :
              /\ SlashKey(n) \in DOMAIN remote
              /\ Stripped(remote[SlashKey(n)]) = DigestOf(n)

\* C23 witness: the first run uploaded "a" and failed at "d/b"; the second
\* skipped "a" and uploaded "d/b"
C23_Witness ==
    /\ Resumed
    /\ prevUploaded = {<<"a">>}
    /\ decisions = <<"skipped", "uploaded">>
    /\ putLog = << <<"d", "/", "b">> >>

(***************************************************************************)
(* Properties of two publish runs on one stack name.                       *)
(***************************************************************************)
\* the provider rejected the submission of the second run, and not as an
\* update that changes nothing
RunBRejected ==
    /\ Len(bRequests) = 1 /\ ~bSubmitOut.ok
    /\ ~(bRequests[1].op = "update"
          /\ HasWords(bSubmitOut.msg, <<"No", "updates", "are", "to", "be", "performed">>))

\* the operation of the first run is in flight
RunAInFlight ==
    /\ epc = "done" /\ ensureRes.started
    /\ stackStatus \in {"CREATE_IN_PROGRESS", "UPDATE_IN_PROGRESS"}

\* C24: a second run whose submission the provider rejects returns the
\* rejection as its error after that one request and makes no other call;
\* none of its steps changes the stack or anything the first run holds
C24_RejectedRunStops ==
    /\ [](RunBRejected =>
            /\ ~bRes.started /\ bRes.err # None
            /\ bpc \in {"returned", "failed"}
            /\ bSteps = <<"CreateOrUpdateStack">>)
    /\ [](Len(bRequests) <= 1)
    /\ [][(bpc' # bpc /\ (bpc' = "check" \/ bpc' = "submit" \/ ~bSubmitOut'.ok))
            => UNCHANGED <<syncVars, ensureVars, waitVars, invVars, pubVars,
                           provVars>>]_vars

\* C24 witness: the first run is waiting for its update when the second
\* run's update is rejected, and the second run has failed
C24_Witness ==
    /\ RunAInFlight /\ wpc = "waiting" /\ requests[1].op = "update"
    /\ RunBRejected /\ bRequests[1].op = "update"
    /\ bSubmitOut.msg = <<"Stack", "is", "in", "UPDATE_IN_PROGRESS", "state">>
    /\ bpc = "failed"

(***************************************************************************)
(* A fingerprint that cannot be read.                                      *)
(***************************************************************************)
\* SyncDirectory returned the error of fileMD5
Md5Failed == pc = "done" /\ err = "md5"

\* C25 as stated: the error names the file, and the failure does not end
\* the sync while files remain
C25_AsStated ==
    /\ (Md5Failed => errPath = files[idx])
    /\ ~(Md5Failed /\ idx < Len(files))

\* C25: a fingerprint that cannot be read ends the sync at once with an
\* error that names the path of that file; the files before it were
\* compared, and no file after it is compared or uploaded
C25_ReadFailureAborts ==
    /\ [](err = "md5" =>
            /\ pc = "done"
            /\ errPath = files[idx]
            /\ Len(decisions) = idx - 1)
    /\ [][(err = "md5" /\ err' = "md5")
            => UNCHANGED <<remote, putLog, decisions, uploaded, skipped, idx,
                           errPath>>]_vars

\* C25 witness: the fingerprint of the first of two files fails, and the
\* sync has ended with the second file neither compared nor uploaded
C25_Witness ==
    /\ Md5Failed /\ idx = 1 /\ Len(files) = 2
    /\ errPath = files[1] /\ decisions = <<>> /\ putLog = <<>>

(***************************************************************************)
(* SelectHostedZone (src/unnamed/part_003 lines 58-91).                     *)
(***************************************************************************)
MaxZones == 2
MaxInput == 3

DecimalDigits == <<"0", "1", "2", "3", "4", "5", "6", "7", "8", "9">>

IsDigit(c) == \E d \in DOMAIN DecimalDigits : DecimalDigits[d] = c

DigitValue(c) == (CHOOSE d \in DOMAIN DecimalDigits : DecimalDigits[d] = c) - 1

\* the value of a run of decimal digits
RECURSIVE DecimalValue(_)
DecimalValue(s) ==
    IF s = <<>> THEN 0
    ELSE 10 * DecimalValue(SubSeq(s, 1, Len(s) - 1)) + DigitValue(s[Len(s)])

\* strconv.Atoi: an optional sign, then one or more decimal digits
Atoi(s) ==
    LET signed == s # <<>> /\ s[1] \in {"+", "-"}
        body   == IF signed THEN Tail(s) ELSE s
        ok     == body # <<>> /\ \A i \in DOMAIN body : IsDigit(body[i])
    IN [ok  |-> ok,
        num |-> IF ~ok THEN 0
                ELSE IF s[1] = "-" THEN 0 - DecimalValue(body)
                ELSE DecimalValue(body)]

WhiteSpace == {" ", "\t", "\n", "\r"}

\* strings.TrimSpace
RECURSIVE TrimSpaceLeft(_)
TrimSpaceLeft(s) ==
    IF s # <<>> /\ s[1] \in WhiteSpace THEN TrimSpaceLeft(Tail(s)) ELSE s

RECURSIVE TrimSpaceRight(_)
TrimSpaceRight(s) ==
    IF s # <<>> /\ s[Len(s)] \in WhiteSpace
    THEN TrimSpaceRight(SubSeq(s, 1, Len(s) - 1)) ELSE s

TrimSpace(s) == TrimSpaceRight(TrimSpaceLeft(s))

\* bufio.Reader.ReadString('\n'): the bytes up to and with the first
\* newline; without a newline everything that is left, and io.EOF
NewlineAt(s) ==
    IF \E i \in DOMAIN s : s[i] = "\n"
    THEN CHOOSE i \in DOMAIN s : s[i] = "\n" /\ \A j \in 1..(i - 1) : s[j] # "\n"
    ELSE 0

ReadString(s) ==
    IF NewlineAt(s) = 0 THEN [line |-> s, eof |-> TRUE]
    ELSE [line |-> SubSeq(s, 1, NewlineAt(s)), eof |-> FALSE]

\* what SelectHostedZone returns: the zone (<<>>: nil) with its place in the
\* list, the error (empty message: nil), and whether the operator was asked
ZoneResult(zone, at, msg, detail, prompted) ==
    [zone |-> zone, at |-> at, msg |-> msg, detail |-> detail,
     prompted |-> prompted]

ZoneError(msg, detail, prompted) == ZoneResult(<<>>, 0, msg, detail, prompted)

\* line 90, always the first zone
PickedFirst(zones, num) == zones[1]

\* line 90: &zones[num-1], the list counted from 0
Picked(zones, num) == zones[num]

SelectHostedZone(zones, isTerminal, stdin) ==
    IF Len(zones) = 0
    THEN ZoneError("no Route53 hosted zone found", <<>>, FALSE)
    ELSE IF Len(zones) = 1
    THEN ZoneResult(<<zones[1]>>, 1, "", <<>>, FALSE)
    ELSE IF ~isTerminal
    THEN ZoneError("multiple hosted zones found; run interactively or specify zone in .ansel.toml",
                   <<>>, FALSE)
    ELSE LET read  == ReadString(stdin)
             input == TrimSpace(read.line)
             conv  == Atoi(input)
         IN IF read.eof
            THEN ZoneError("failed to read input", <<>>, TRUE)
            ELSE IF ~conv.ok \/ conv.num < 1 \/ conv.num > Len(zones)
            THEN ZoneError("invalid selection", input, TRUE)
            ELSE ZoneResult(<<Picked(zones, conv.num)>>, conv.num, "", <<>>, TRUE)

HostedZones ==
    {[ID |-> "Z1", Name |-> "example.com"], [ID |-> "Z2", Name |-> "example.org"]}

ZoneLists == UNION {[1..n -> HostedZones] : n \in 0..MaxZones}

TypedChars == {"0", "1", "2", "3", "+", "-", " ", "x", "\n"}

StdinContents == UNION {[1..n -> TypedChars] : n \in 0..MaxInput}

ZoneInit ==
    /\ fname = "SelectHostedZone"
    /\ arg \in [zones : ZoneLists, isTerminal : BOOLEAN, stdin : StdinContents]
    /\ ret = <<>>

\* SelectHostedZone is called and returns
ApplySelectHostedZone ==
    /\ fname = "SelectHostedZone"
    /\ ret = <<>>
    /\ ret' = <<SelectHostedZone(arg.zones, arg.isTerminal, arg.stdin)>>
    /\ UNCHANGED <<fname, arg>>
    /\ UNCHANGED <<syncVars, ensureVars, waitVars, invVars, pubVars, provVars,
                   runBVars>>

InitZone ==
    /\ SyncParked /\ EnsureParked /\ WaitParked /\ InvParked /\ PubParked
    /\ RunBParked
    /\ ZoneInit

NextZone == ApplySelectHostedZone

SpecZone == InitZone /\ [][NextZone]_vars

\* the line the operator entered, when one was entered
Entered == TrimSpace(ReadString(arg.stdin).line)

\* the entered line is the decimal numeral of n, as the operator would
\* type it: digits only, no leading zero
RECURSIVE Numeral(_)
Numeral(n) ==
    IF n < 10 THEN <<DecimalDigits[n + 1]>>
    ELSE Append(Numeral(n \div 10), DecimalDigits[(n % 10) + 1])

\* C26: no zone is an error; one zone is returned unasked; several zones
\* without a terminal are an error that points to .ansel.toml; several zones
\* on a terminal give zones[n-1] for an entered n in 1..len(zones) and an
\* error for a line that is no number, 0 or more than len(zones); a returned
\* zone is always one of the list
C26_ZoneSelection ==
    (fname = "SelectHostedZone" /\ ret # <<>>) =>
        LET r     == ret[1]
            zones == arg.zones
            n     == Len(zones)
            asked == n > 1 /\ arg.isTerminal
            line  == ~ReadString(arg.stdin).eof
        IN /\ (n = 0 => r.zone = <<>> /\ r.msg = "no Route53 hosted zone found")
           /\ (n = 1 => r.zone = <<zones[1]>> /\ r.msg = "" /\ ~r.prompted)
           /\ (n > 1 /\ ~arg.isTerminal =>
                 /\ r.zone = <<>> /\ ~r.prompted
                 /\ r.msg = "multiple hosted zones found; run interactively or specify zone in .ansel.toml")
           /\ (asked /\ line =>
                 /\ \A k \in 1..n :
                      Entered = Numeral(k) => r.zone = <<zones[k]>> /\ r.msg = ""
                 /\ (~Atoi(Entered).ok \/ Atoi(Entered).num = 0
                       \/ Atoi(Entered).num > n)
                      => r.zone = <<>> /\ r.msg = "invalid selection"
                           /\ r.detail = Entered)
           /\ (asked /\ ~line => r.zone = <<>> /\ r.msg = "failed to read input")
           /\ (r.zone = <<>>) = (r.msg # "")
           /\ (r.zone # <<>> =>
                 r.at \in 1..n /\ r.zone = <<zones[r.at]>>)

\* C26 witness: of two different zones the operator entered " 2", and the
\* second zone was returned
C26_Witness ==
    /\ fname = "SelectHostedZone" /\ ret # <<>>
    /\ Len(arg.zones) = 2 /\ arg.zones[1] # arg.zones[2] /\ arg.isTerminal
    /\ arg.stdin = <<" ", "2", "\n">>
    /\ ret[1].zone = <<arg.zones[2]>> /\ ret[1].prompted

(***************************************************************************)
(* generateOutputPath (src/cmd/process_test.go lines 556-583).  Paths and  *)
(* numerals are sequences of characters; the version is an int of 64 bits, *)
(* kept as its decimal digits.                                             *)
(***************************************************************************)
MaxStem == 4
MaxIter == 2

\* the place of the last c in s (0: there is none)
LastIndex(s, c) ==
    IF \E i \in DOMAIN s : s[i] = c
    THEN CHOOSE i \in DOMAIN s : s[i] = c /\ \A j \in (i + 1)..Len(s) : s[j] # c
    ELSE 0

\* filepath.Base of a path that names a file
FilepathBase(path) == SubSeq(path, LastIndex(path, "/") + 1, Len(path))

\* filepath.Dir of a clean path
FilepathDir(path) ==
    LET i == LastIndex(path, "/")
    IN IF i = 0 THEN <<".">>
       ELSE IF i = 1 THEN <<"/">>
       ELSE SubSeq(path, 1, i - 1)

\* filepath.Ext: from the last dot of the last element
FilepathExt(path) ==
    LET b == FilepathBase(path)
        i == LastIndex(b, ".")
    IN IF i = 0 THEN <<>> ELSE SubSeq(b, i, Len(b))

\* filepath.Join of a clean directory and a file name: Clean drops a
\* leading "./"
FilepathJoin(dir, name) ==
    IF dir = <<".">> THEN name
    ELSE IF dir = <<"/">> THEN <<"/">> \o name
    ELSE dir \o <<"/">> \o name

\* strings.TrimSuffix
TrimSuffix(s, suffix) ==
    IF Len(s) >= Len(suffix)
         /\ SubSeq(s, Len(s) - Len(suffix) + 1, Len(s)) = suffix
    THEN SubSeq(s, 1, Len(s) - Len(suffix))
    ELSE s

\* the start of the run of decimal digits that ends s (Len(s) + 1: s does
\* not end with a digit)
RECURSIVE DigitRunStart(_, _)
DigitRunStart(s, i) ==
    IF i >= 1 /\ IsDigit(s[i]) THEN DigitRunStart(s, i - 1) ELSE i + 1

\* FindStringSubmatch of ^(.+)_v(\d+)$: <<>> for no match, else the two
\* groups
VersionMatch(base) ==
    LET d == DigitRunStart(base, Len(base))
    IN IF d <= Len(base) /\ d >= 4 /\ base[d - 2] = "_" /\ base[d - 1] = "v"
       THEN <<SubSeq(base, 1, d - 3), SubSeq(base, d, Len(base))>>
       ELSE <<>>

RECURSIVE StripZeros(_)
StripZeros(ds) ==
    IF Len(ds) > 1 /\ ds[1] = "0" THEN StripZeros(Tail(ds)) ELSE ds

\* the largest int: 2^63 - 1
MaxIntDigits ==
    <<"9", "2", "2", "3", "3", "7", "2", "0", "3", "6", "8", "5", "4", "7",
      "7", "5", "8", "0", "7">>

\* the int after it: -2^63
MinIntNumeral ==
    <<"-", "9", "2", "2", "3", "3", "7", "2", "0", "3", "6", "8", "5", "4",
      "7", "7", "5", "8", "0", "8">>

\* a < b for two numerals without leading zeros
RECURSIVE LexLess(_, _)
LexLess(a, b) ==
    IF a = <<>> THEN FALSE
    ELSE IF a[1] # b[1] THEN DigitValue(a[1]) < DigitValue(b[1])
    ELSE LexLess(Tail(a), Tail(b))

NumeralLess(a, b) ==
    Len(a) < Len(b) \/ (Len(a) = Len(b) /\ LexLess(a, b))

\* strconv.Atoi of a run of digits, its error dropped (line 570): a value
\* that does not fit is returned as the largest int
AtoiDigits(ds) ==
    LET n == StripZeros(ds)
    IN IF NumeralLess(MaxIntDigits, n) THEN MaxIntDigits ELSE n

\* the numeral of n + 1
RECURSIVE Succ(_)
Succ(n) ==
    IF n = <<>> THEN <<"1">>
    ELSE IF n[Len(n)] = "9" THEN Succ(SubSeq(n, 1, Len(n) - 1)) \o <<"0">>
    ELSE SubSeq(n, 1, Len(n) - 1) \o <<DecimalDigits[DigitValue(n[Len(n)]) + 2]>>

\* version+1 printed with %d (line 571): the largest int wraps around
NextVersion(n) == IF n = MaxIntDigits THEN MinIntNumeral ELSE Succ(n)

JpgExt == <<".", "j", "p", "g">>

generateOutputPath(inputPath, outDir) ==
    LET ext     == FilepathExt(inputPath)
        base    == TrimSuffix(FilepathBase(inputPath), ext)
        matches == VersionMatch(base)
        newBase == IF matches # <<>>
                   THEN matches[1] \o <<"_", "v">>
                          \o NextVersion(AtoiDigits(matches[2]))
                   ELSE base \o <<"_", "v", "0">>
        dir     == IF outDir = <<>> THEN FilepathDir(inputPath) ELSE outDir
    IN FilepathJoin(dir, newBase \o JpgExt)

StemChars == {"p", "_", "v", "0", "9"}

LongStems ==
    {<<"p", "_", "v">> \o n :
        n \in {MaxIntDigits, SubSeq(MaxIntDigits, 1, 18) \o <<"6">>,
               MaxIntDigits \o <<"0">>}}

Stems == UNION {[1..n -> StemChars] : n \in 0..MaxStem} \cup LongStems

InputNames ==
    {st \o e : st \in Stems, e \in {<<>>, JpgExt, <<".", "p", "n", "g">>}}
      \ {<<>>}

InputPaths ==
    {FilepathJoin(d, n) : d \in {<<".">>, <<"/", "d">>}, n \in InputNames}

PathInit ==
    /\ fname = "generateOutputPath"
    /\ arg \in [inputPath : InputPaths, outDir : {<<>>, <<"o">>},
                first : {<<>>}, iter : {0}]
    /\ ret = <<>>

\* generateOutputPath is called and returns
ApplyGenerateOutputPath ==
    /\ fname = "generateOutputPath"
    /\ ret = <<>>
    /\ ret' = <<generateOutputPath(arg.inputPath, arg.outDir)>>
    /\ UNCHANGED <<fname, arg>>
    /\ UNCHANGED <<syncVars, ensureVars, waitVars, invVars, pubVars, provVars,
                   runBVars>>

\* the output is processed again
FeedBack ==
    /\ fname = "generateOutputPath"
    /\ ret # <<>>
    /\ arg.iter < MaxIter
    /\ arg' = [inputPath |-> ret[1], outDir |-> arg.outDir,
               first |-> IF arg.iter = 0 THEN arg.inputPath ELSE arg.first,
               iter |-> arg.iter + 1]
    /\ ret' = <<>>
    /\ UNCHANGED fname
    /\ UNCHANGED <<syncVars, ensureVars, waitVars, invVars, pubVars, provVars,
                   runBVars>>

InitPath ==
    /\ SyncParked /\ EnsureParked /\ WaitParked /\ InvParked /\ PubParked
    /\ RunBParked
    /\ PathInit

NextPath ==
    \/ ApplyGenerateOutputPath
    \/ FeedBack

SpecPath == InitPath /\ [][NextPath]_vars

\* the base name of a path without its extension
BaseOf(path) == TrimSuffix(FilepathBase(path), FilepathExt(path))

\* a name ends in _v<digits>
EndsInVersion(base) ==
    LET d == DigitRunStart(base, Len(base))
    IN d <= Len(base) /\ d >= 3 /\ base[d - 2] = "_" /\ base[d - 1] = "v"

\* the name with the number after its _v raised by one
Incremented(base) ==
    LET d == DigitRunStart(base, Len(base))
    IN SubSeq(base, 1, d - 1) \o Succ(StripZeros(SubSeq(base, d, Len(base))))

\* C27 as stated: a base name that ends in _v<digits> comes back with that
\* number plus one, any other base name with _v0 appended; the extension is
\* .jpg, the directory is outDir or else that of the input; the output is
\* never the input, and from an unversioned name the k-th output carries
\* version k - 1
C27_AsStated ==
    (fname = "generateOutputPath" /\ ret # <<>>) =>
        LET base == BaseOf(arg.inputPath)
            dir  == IF arg.outDir # <<>> THEN arg.outDir
                    ELSE FilepathDir(arg.inputPath)
            want == IF EndsInVersion(base) THEN Incremented(base)
                    ELSE base \o <<"_", "v", "0">>
        IN /\ ret[1] = FilepathJoin(dir, want \o JpgExt)
           /\ ret[1] # arg.inputPath
           /\ (arg.iter > 0 /\ ~EndsInVersion(BaseOf(arg.first)) =>
                 BaseOf(ret[1]) = BaseOf(arg.first) \o <<"_", "v">>
                                     \o <<DecimalDigits[arg.iter + 1]>>)

(***************************************************************************)
(* processExpandVips (src/cmd/process_test.go lines 512-542) with          *)
(* ResizeToFit and AddFrame (src/unnamed/part_001 lines 85-122).           *)
(***************************************************************************)
MaxDim == 5
MaxFrame == 2

\* the frame width runProcess computes from the --frame percentage, which
\* it takes as given (process_test.go line 464)
FrameWidths == (0 - MaxFrame)..MaxFrame

\* Go's integer division: towards zero
Quot(a, b) == IF a >= 0 THEN a \div b ELSE 0 - ((0 - a) \div b)

\* src * num / den in whole pixels: one of the two neighbours of the exact
\* value, and never less than one pixel
ScaledSizes(src, num, den) ==
    LET down == (src * num) \div den
        up   == ((src * num) + den - 1) \div den
    IN {IF down < 1 THEN 1 ELSE down, IF up < 1 THEN 1 ELSE up}

\* ResizeToFit (part_001 lines 85-104): the sizes the image can have after
\* one Resize by the smaller of maxWidth/srcWidth and maxHeight/srcHeight
ResizeToFit(srcW, srcH, maxW, maxH) ==
    IF maxH * srcW < maxW * srcH
    THEN ScaledSizes(srcW, maxH, srcH) \X ScaledSizes(srcH, maxH, srcH)
    ELSE ScaledSizes(srcW, maxW, srcW) \X ScaledSizes(srcH, maxW, srcW)

\* AddFrame (part_001 lines 106-122): the size EmbedBackground is asked for
AddFrame(w, h, top, right, bottom, left) == <<w + left + right, h + top + bottom>>

\* what processExpandVips returns and leaves behind: the error (empty: nil),
\* the size of the image, its size after the resize, and the borders
ExpandResult(e, w, h, rw, rh, borders) ==
    [err |-> e, width |-> w, height |-> h, resizeWidth |-> rw,
     resizeHeight |-> rh, borders |-> borders]

NoBorders == [top |-> 0, right |-> 0, bottom |-> 0, left |-> 0]

\* lines 516-517
Avail(target, frameWidth) == target - 2 * frameWidth

\* every way a call can end: the resize and the embedding are calls into
\* libvips, which can fail
processExpandVips(srcW, srcH, targetWidth, targetHeight, frameWidth) ==
    LET availWidth  == Avail(targetWidth, frameWidth)
        availHeight == Avail(targetHeight, frameWidth)
    IN IF availWidth <= 0 \/ availHeight <= 0
       THEN {ExpandResult("frame too large for output size", srcW, srcH,
                          srcW, srcH, NoBorders)}
       ELSE {ExpandResult("resize failed", srcW, srcH, srcW, srcH, NoBorders)}
            \cup UNION {
              LET resizeWidth  == sz[1]
                  resizeHeight == sz[2]
                  offsetX == Quot(targetWidth - resizeWidth, 2)
                  offsetY == Quot(targetHeight - resizeHeight, 2)
                  b == [top    |-> offsetY,
                        right  |-> targetWidth - resizeWidth - offsetX,
                        bottom |-> targetHeight - resizeHeight - offsetY,
                        left   |-> offsetX]
                  framed == AddFrame(resizeWidth, resizeHeight,
                                     b.top, b.right, b.bottom, b.left)
              IN {ExpandResult("add frame failed", resizeWidth, resizeHeight,
                               resizeWidth, resizeHeight, b),
                  ExpandResult("", framed[1], framed[2],
                               resizeWidth, resizeHeight, b)}
              : sz \in ResizeToFit(srcW, srcH, availWidth, availHeight)}

ExpandInit ==
    /\ fname = "processExpandVips"
    /\ arg \in [srcW : 1..MaxDim, srcH : 1..MaxDim,
                targetWidth : 1..MaxDim, targetHeight : 1..MaxDim,
                frameWidth : FrameWidths]
    /\ ret = <<>>

\* processExpandVips is called and returns
ApplyProcessExpandVips ==
    /\ fname = "processExpandVips"
    /\ ret = <<>>
    /\ \E r \in processExpandVips(arg.srcW, arg.srcH, arg.targetWidth,
                                  arg.targetHeight, arg.frameWidth) :
         ret' = <<r>>
    /\ UNCHANGED <<fname, arg>>
    /\ UNCHANGED <<syncVars, ensureVars, waitVars, invVars, pubVars, provVars,
                   runBVars>>

InitExpand ==
    /\ SyncParked /\ EnsureParked /\ WaitParked /\ InvParked /\ PubParked
    /\ RunBParked
    /\ ExpandInit

NextExpand == ApplyProcessExpandVips

SpecExpand == InitExpand /\ [][NextExpand]_vars

Distance(a, b) == IF a >= b THEN a - b ELSE b - a

\* C28 as stated: a call that succeeds added borders that fill the resized
\* image up to the target size, none of them negative and opposite ones at
\* most one pixel apart, and the image has the target size; a frame that
\* leaves no room is an error that leaves the image as it was
C28_AsStated ==
    (fname = "processExpandVips" /\ ret # <<>>) =>
        LET r == ret[1]
            b == r.borders
        IN /\ (r.err = "" =>
                 /\ b.left + b.right + r.resizeWidth = arg.targetWidth
                 /\ b.top + b.bottom + r.resizeHeight = arg.targetHeight
                 /\ b.left >= 0 /\ b.right >= 0 /\ b.top >= 0 /\ b.bottom >= 0
                 /\ Distance(b.left, b.right) <= 1
                 /\ Distance(b.top, b.bottom) <= 1
                 /\ r.width = arg.targetWidth /\ r.height = arg.targetHeight)
           /\ ((Avail(arg.targetWidth, arg.frameWidth) <= 0
                  \/ Avail(arg.targetHeight, arg.frameWidth) <= 0) =>
                 /\ r.err = "frame too large for output size"
                 /\ r.width = arg.srcW /\ r.height = arg.srcH)

(***************************************************************************)
(* The status of the stack when its outputs are read.                      *)
(***************************************************************************)
\* C29 as stated: once a publish run reads the outputs, and while it syncs,
\* the stack is in CREATE_COMPLETE or UPDATE_COMPLETE, after a wait as well
\* as after an update that changed nothing
C29_AsStated ==
    (Made("GetStackOutputs") \/ pc # "idle") => stackStatus \in SuccessStatuses

(***************************************************************************)
(* What a finished sync leaves in the bucket.                              *)
(***************************************************************************)
\* the bucket holds under the key of this local file an object whose
\* fingerprint is the file's
InSync(names) ==
    /\ SlashKey(names) \in DOMAIN remote
    /\ Stripped(remote[SlashKey(names)]) = DigestOf(names)

\* C30: when SyncDirectory has returned nil, every local file is in the
\* bucket under its key with the file's fingerprint, uploaded or skipped;
\* and at no time is a file counted as skipped while the bucket holds other
\* content, or nothing, under its key
C30_SyncPostcondition ==
    /\ Completed => \A n \in LocalFiles : InSync(n)
    /\ \A i \in 1..Len(decisions) :
         decisions[i] = "skipped" => InSync(NamesAt(i))
    /\ Completed => uploaded + skipped = Cardinality(LocalFiles)

\* C30 witness: a first run that returned nil after it uploaded one file
\* over other content and skipped the other, both now in the bucket
C30_Witness ==
    /\ Completed /\ run = 1
    /\ decisions = <<"uploaded", "skipped">>
    /\ KeyA \in DOMAIN remote0 /\ remote0[KeyA] # remote[KeyA]
    /\ \A n \in LocalFiles : InSync(n)

====
